---------------------------- MODULE Spec2Model ----------------------------
(***************************************************************************)
(* A model of the u-routing vehicle-routing core: the distance matrix, the *)
(* route evaluator, the Prins split, the local-search operators, the       *)
(* constructive heuristics and the ALNS destroy / repair operators.        *)
(*                                                                         *)
(* Distances, times and demands are integers.  Location 0 is the depot and *)
(* the customers are 1..n.  Rust slices are 0-indexed; the sequences below *)
(* are 1-indexed, so the code's route[p] is route[p + 1] here, and every   *)
(* position that the code computes is kept as the code's 0-based number.   *)
(***************************************************************************)
EXTENDS Integers, Sequences, FiniteSets, TLC

VARIABLES
    n,          \* customers.len() - 1
    dist,       \* DistanceMatrix.data, as dist[from][to]
    demand,     \* Customer.demand, by id
    service,    \* Customer.service_duration, by id
    tw,         \* Customer.time_window, by id: <<>> (None) or <<ready, due>>
    capacity,   \* Vehicle.capacity / the capacity argument
    tour,       \* split: the giant tour
    cost,       \* split: cost[i], 0..n
    pred,       \* split: pred[i], 0..n
    sp_i,       \* split: the outer loop index i
    sp_pc,      \* split: "idle", "dp", "backtrack", "done"
    sp_routes,  \* SplitResult.routes
    sp_total,   \* SplitResult.total_distance
    stw_cost,   \* split_tw: cost[i], 0..n
    stw_pred,   \* split_tw: pred[i], 0..n
    stw_i,      \* split_tw: the outer loop index i
    stw_pc,     \* split_tw: "idle", "dp", "done"
    stw_routes, \* split_tw: SplitResult.routes
    stw_total,  \* split_tw: SplitResult.total_distance
    max_distance,   \* Vehicle.max_distance: <<>> (None) or <<limit>>
    max_duration,   \* Vehicle.max_duration: <<>> (None) or <<limit>>
    ev_input,       \* build_route: the customer ids passed so far
    ev_pc,          \* build_route: "loop", "done"
    ev_time,        \* build_route: current_time
    ev_load,        \* build_route: current_load
    ev_dist,        \* build_route: total_distance (the local)
    ev_prev,        \* build_route: prev
    ev_route,       \* build_route: route
    ev_violations,  \* build_route: violations
    ls_op,          \* local search: the operator called
    ls_pc,          \* local search: "run", "done"
    in_routes,      \* local search: the input route(s), as customer ids
    unassigned,     \* local search: the input solution's unassigned list
    routes,         \* local search: current (as <<current>>) / routes
    ls_step,        \* or_opt: seg_len; exchange: <<r1, r2>>
    improved,       \* local search: improved
    ls_before,      \* total distance before the last applied move
    ls_delta,       \* the delta computed for the last applied move
    out_routes,     \* the returned route (as <<route>>) / solution routes
    out_unassigned, \* the returned solution's unassigned list
    out_dist,       \* the returned distance / solution total distance
    cons_op,         \* constructive: the heuristic called
    cons_pc,         \* constructive: the position in its body
    vehicles,        \* nearest_neighbor(_tw): the capacity of each vehicle
    xs,              \* Customer.x, by id
    ys,              \* Customer.y, by id
    visited,         \* nearest_neighbor(_tw): visited
    vehicle_idx,     \* nearest_neighbor(_tw): vehicle_idx
    current,         \* nearest_neighbor(_tw): current
    current_time,    \* nearest_neighbor_tw: current_time
    current_load,    \* nearest_neighbor(_tw), sweep: current_load
    route_customers, \* nearest_neighbor(_tw), solomon_i1: route_customers
    savings,         \* clarke_wright_savings: the sorted savings
    cons_k,          \* the number of savings / angle_order entries processed
    route_of,        \* clarke_wright_savings: route_of
    route_load,      \* clarke_wright_savings: route_load
    route_members,   \* clarke_wright_savings: route_members
    angle_order,     \* sweep: the customer ids of the sorted angle_order
    current_route,   \* sweep: current_route
    unrouted,        \* solomon_i1: unrouted
    sol_routes,      \* constructive: solution.routes, as customer ids
    sol_unassigned,  \* constructive: solution.unassigned
    al_op,           \* ALNS: the operator called
    al_pc,           \* ALNS: the position in its body
    al_input,        \* ALNS: the solution passed in
    sol,             \* ALNS: sol, the clone that the operator works on
    degree,          \* destroy: degree, in units of 1 / DegreeUnit
    num_remove,      \* destroy: num_remove
    al_iter,         \* destroy: the iterations of the for loop so far
    assigned,        \* ShawRemoval: assigned
    removed,         \* ShawRemoval: removed
    rp_unassigned,   \* repair: the local unassigned
    regret_k,        \* RegretInsertion.k
    ga_op,           \* the RoutingGaProblem method called
    ga_pc,           \* its position: "call", "shuffle", "routes", "done"
    perm,            \* create_individual: perm; mutate: the individual
    ga_i,            \* create_individual: the loop index i
    parent1,         \* crossover: parent1.customers()
    parent2,         \* crossover: parent2.customers()
    children,        \* crossover: the customers of the returned tours
    apply_local_search,  \* RoutingGaProblem.apply_local_search
    ga_k,            \* evaluate: the routes of result.routes done so far
    fitness,         \* evaluate: total, and the value returned
    dm_size,         \* DistanceMatrix.size
    dm_data,         \* DistanceMatrix.data, row-major
    dm_calls         \* the constructor and the set calls that built it

probVars  == <<n, dist, demand, service, tw, capacity>>
splitVars == <<tour, cost, pred, sp_i, sp_pc, sp_routes, sp_total>>
splitTwVars == <<stw_cost, stw_pred, stw_i, stw_pc, stw_routes, stw_total>>
evalVars  == <<max_distance, max_duration, ev_input, ev_pc, ev_time, ev_load,
               ev_dist, ev_prev, ev_route, ev_violations>>
lsVars    == <<ls_op, ls_pc, in_routes, unassigned, routes, ls_step, improved,
               ls_before, ls_delta, out_routes, out_unassigned, out_dist>>
consVars  == <<cons_op, cons_pc, vehicles, xs, ys, visited, vehicle_idx,
               current, current_time, current_load, route_customers, savings,
               cons_k, route_of, route_load, route_members, angle_order,
               current_route, unrouted, sol_routes, sol_unassigned>>
alnsVars  == <<al_op, al_pc, al_input, sol, degree, num_remove, al_iter,
               assigned, removed, rp_unassigned, regret_k>>
gaVars    == <<ga_op, ga_pc, perm, ga_i, parent1, parent2, children,
               apply_local_search, ga_k, fitness>>
dmVars    == <<dm_size, dm_data, dm_calls>>
vars      == <<probVars, splitVars, splitTwVars, evalVars, lsVars, consVars,
               alnsVars, gaVars, dmVars>>

\* What each component leaves alone
notSplit == <<splitTwVars, evalVars, lsVars, consVars, alnsVars, gaVars, dmVars>>
notEval  == <<splitVars, splitTwVars, lsVars, consVars, alnsVars, gaVars, dmVars>>
notLs    == <<splitVars, splitTwVars, evalVars, consVars, alnsVars, gaVars, dmVars>>
notCons  == <<splitVars, splitTwVars, evalVars, lsVars, alnsVars, gaVars, dmVars>>
notAlns  == <<splitVars, splitTwVars, evalVars, lsVars, consVars, gaVars, dmVars>>
notSplitTw == <<evalVars, lsVars, consVars, alnsVars, gaVars, dmVars>>
notGa    == <<splitVars, splitTwVars, evalVars, lsVars, consVars, alnsVars,
              dmVars>>
notDm    == <<splitVars, splitTwVars, evalVars, lsVars, consVars, alnsVars,
              gaVars>>

-----------------------------------------------------------------------------
(* Bounds of the model *)

NumCust   == 3
MaxCoord  == 2
MaxHeight == 2
MaxToll   == 2
MaxDemand == 2
MaxCap    == 3
EvalCust   == 2
MaxSeq     == 2
MaxService == 1
MaxReady   == 2
MaxLimit   == 4
LsCust     == 4
LongCust   == 5
SolCust    == 3
MaxRoutes  == 3
ConsCust    == 3
CwCust      == 4
MaxPair     == 3
MaxVehicles == 2
AlnsCust    == 3
DegreeUnit  == 4
MaxDetour   == 3
GaCust      == 4
DmSize      == 2
MaxDist     == 2
MaxSets     == 2

\* f64::INFINITY: larger than every finite cost the model can form
Infinity == 999999

-----------------------------------------------------------------------------
(* Generic helpers *)

Abs(x) == IF x < 0 THEN -x ELSE x
Max(a, b) == IF a >= b THEN a ELSE b
Min(a, b) == IF a <= b THEN a ELSE b

RECURSIVE SumSeq(_)
SumSeq(s) == IF s = <<>> THEN 0 ELSE Head(s) + SumSeq(Tail(s))

RECURSIVE Concat(_)
Concat(ss) == IF ss = <<>> THEN <<>> ELSE Head(ss) \o Concat(Tail(ss))

\* A reversal that leaves the order as it is
NotReversed(s) == s

\* Vec::reverse
Reverse(s) == [k \in 1..Len(s) |-> s[Len(s) + 1 - k]]

\* s[a..b) with 0-based bounds, as the Rust slice s[a..b]
Slice(s, a, b) == IF b <= a THEN <<>> ELSE SubSeq(s, a + 1, b)

Range(s) == {s[k] : k \in 1..Len(s)}

Perms(S) == {s \in [1..Cardinality(S) -> S] : \A a, b \in 1..Cardinality(S) : a # b => s[a] # s[b]}

-----------------------------------------------------------------------------
(* Problem instances.  A matrix is built either from coordinates on a line *)
(* (symmetric), or from explicit data: heights, where climbing costs the   *)
(* height gained, or a one-way ring with a toll on each ring edge.         *)

Nodes(m) == 0..m

LineMatrix(m, x) ==
    [i \in Nodes(m) |-> [j \in Nodes(m) |-> Abs(x[i] - x[j])]]

HillMatrix(m, h) ==
    [i \in Nodes(m) |-> [j \in Nodes(m) |->
        IF i = j THEN 0 ELSE 1 + Max(0, h[j] - h[i])]]

TollMatrix(m, t) ==
    [i \in Nodes(m) |-> [j \in Nodes(m) |->
        IF i = j THEN 0
        ELSE 1 + (IF j = (i + 1) % (m + 1) THEN t[i] ELSE 0)]]

\* DistanceMatrix::from_data, symmetric: 1 between neighbours on the cycle
\* depot, p[1], ..., p[m], depot and 2 between the rest
CycleMatrix(m, p) ==
    LET at == [c \in Nodes(m) |-> IF c = 0 THEN 0 ELSE CHOOSE k \in 1..m : p[k] = c]
    IN  [i \in Nodes(m) |-> [j \in Nodes(m) |->
            IF i = j THEN 0
            ELSE IF (at[i] - at[j]) % (m + 1) \in {1, m} THEN 1 ELSE 2]]

Matrices(m) ==
    {LineMatrix(m, x) : x \in {y \in [Nodes(m) -> 0..MaxCoord] : y[0] = 0}}
    \cup {HillMatrix(m, h) : h \in {y \in [Nodes(m) -> 0..MaxHeight] : y[0] = 0}}
    \cup {TollMatrix(m, t) : t \in [Nodes(m) -> 0..MaxToll]}

IsSymmetric(d, m) == \A i, j \in Nodes(m) : d[i][j] = d[j][i]

\* DistanceMatrix::get
Get(from, to) == dist[from][to]

Demands(m) == {d \in [Nodes(m) -> 0..MaxDemand] : d[0] = 0}

NoService(m) == [c \in Nodes(m) |-> 0]
NoWindows(m) == [c \in Nodes(m) |-> <<>>]

\* depot -> r[1] -> ... -> r[Len] -> depot, 0 for the empty route
RouteDistance(r) ==
    IF r = <<>> THEN 0
    ELSE Get(0, r[1])
         + SumSeq([k \in 1..Len(r) - 1 |-> Get(r[k], r[k + 1])])
         + Get(r[Len(r)], 0)

Load(r) == SumSeq([k \in 1..Len(r) |-> demand[r[k]]])

TotalDistance(rs) == SumSeq([k \in 1..Len(rs) |-> RouteDistance(rs[k])])


-----------------------------------------------------------------------------
(* The components that a specification does not exercise stay as they are *)

SplitIdle ==
    /\ tour = <<>>
    /\ cost = <<>>
    /\ pred = <<>>
    /\ sp_i = 0
    /\ sp_pc = "idle"
    /\ sp_routes = <<>>
    /\ sp_total = 0

DmIdle ==
    /\ dm_size = 0
    /\ dm_data = <<>>
    /\ dm_calls = <<>>

GaIdle ==
    /\ ga_op = "none"
    /\ ga_pc = "done"
    /\ perm = <<>>
    /\ ga_i = 0
    /\ parent1 = <<>>
    /\ parent2 = <<>>
    /\ children = <<>>
    /\ apply_local_search = FALSE
    /\ ga_k = 0
    /\ fitness = 0

SplitTWIdle ==
    /\ stw_cost = <<>>
    /\ stw_pred = <<>>
    /\ stw_i = 0
    /\ stw_pc = "idle"
    /\ stw_routes = <<>>
    /\ stw_total = 0

\* Route::new
NewRoute == [visits |-> <<>>, total_distance |-> 0, total_duration |-> 0,
             total_load |-> 0]

EvalIdle ==
    /\ max_distance = <<>>
    /\ max_duration = <<>>
    /\ ev_input = <<>>
    /\ ev_pc = "done"
    /\ ev_time = 0
    /\ ev_load = 0
    /\ ev_dist = 0
    /\ ev_prev = 0
    /\ ev_route = NewRoute
    /\ ev_violations = <<>>

LsIdle ==
    /\ ls_op = "none"
    /\ ls_pc = "done"
    /\ in_routes = <<>>
    /\ unassigned = <<>>
    /\ routes = <<>>
    /\ ls_step = 0
    /\ improved = FALSE
    /\ ls_before = 0
    /\ ls_delta = 0
    /\ out_routes = <<>>
    /\ out_unassigned = <<>>
    /\ out_dist = 0

ConsIdle ==
    /\ cons_op = "none"
    /\ cons_pc = "done"
    /\ vehicles = <<>>
    /\ xs = <<>>
    /\ ys = <<>>
    /\ visited = <<>>
    /\ vehicle_idx = 0
    /\ current = 0
    /\ current_time = 0
    /\ current_load = 0
    /\ route_customers = <<>>
    /\ savings = <<>>
    /\ cons_k = 0
    /\ route_of = <<>>
    /\ route_load = <<>>
    /\ route_members = <<>>
    /\ angle_order = <<>>
    /\ current_route = <<>>
    /\ unrouted = <<>>
    /\ sol_routes = <<>>
    /\ sol_unassigned = <<>>

\* A RoutingSolution
RoutingSolution(rs, un, total) ==
    [routes |-> rs, unassigned |-> un, total_distance |-> total]

AlnsIdle ==
    /\ al_op = "none"
    /\ al_pc = "done"
    /\ al_input = RoutingSolution(<<>>, <<>>, 0)
    /\ sol = RoutingSolution(<<>>, <<>>, 0)
    /\ degree = 0
    /\ num_remove = 0
    /\ al_iter = 0
    /\ assigned = <<>>
    /\ removed = <<>>
    /\ rp_unassigned = <<>>
    /\ regret_k = 0

-----------------------------------------------------------------------------
(* ga/split.rs: the Prins split of a giant tour *)

\* if load > capacity { break; }
SplitOverCapacity(load) == load > capacity

\* total_route = route_dist + distances.get(cid, depot)
SplitNoReturnLeg(route_dist, cid) == route_dist
SplitCloseRoute(route_dist, cid) == route_dist + Get(cid, 0)

\* if new_cost < cost[j + 1]
SplitRelaxes(new_cost, old_cost) == new_cost < old_cost

\* The inner loop for j in i..n, from j on; cp = <<cost, pred>>.
RECURSIVE SplitInner(_, _, _, _, _)
SplitInner(i, j, load, route_dist, cp) ==
    IF j >= Len(tour) THEN cp
    ELSE
        LET cid   == tour[j + 1]
            load2 == load + demand[cid]
        IN  IF SplitOverCapacity(load2) THEN cp
            ELSE
                LET rd2 == IF j = i THEN Get(0, cid)
                           ELSE route_dist + Get(tour[j], cid)
                    total_route == SplitCloseRoute(rd2, cid)
                    new_cost    == cp[1][i] + total_route
                    cp2 == IF SplitRelaxes(new_cost, cp[1][j + 1])
                           THEN << [cp[1] EXCEPT ![j + 1] = new_cost],
                                   [cp[2] EXCEPT ![j + 1] = i] >>
                           ELSE cp
                IN  SplitInner(i, j + 1, load2, rd2, cp2)

\* The backtrack loop from j, pushing tour[i..j]; reversed by the caller.
SplitBacktrackLast(j, acc) ==
    IF j > 0 THEN Append(acc, Slice(tour, pred[j], j)) ELSE acc
RECURSIVE SplitBacktrackFrom(_, _)
SplitBacktrackFrom(j, acc) ==
    IF j > 0
    THEN SplitBacktrackFrom(pred[j], Append(acc, Slice(tour, pred[j], j)))
    ELSE acc

\* split(): the early return for an empty tour, or the initial cost / pred
SplitCall ==
    /\ sp_pc = "idle"
    /\ IF Len(tour) = 0
       THEN /\ sp_routes' = <<>>
            /\ sp_total' = 0
            /\ sp_pc' = "done"
            /\ UNCHANGED <<cost, pred, sp_i>>
       ELSE /\ cost' = [k \in 0..Len(tour) |-> IF k = 0 THEN 0 ELSE Infinity]
            /\ pred' = [k \in 0..Len(tour) |-> 0]
            /\ sp_i' = 0
            /\ sp_pc' = "dp"
            /\ UNCHANGED <<sp_routes, sp_total>>
    /\ UNCHANGED <<probVars, tour, notSplit>>

\* One iteration of for i in 0..n
SplitOuter ==
    /\ sp_pc = "dp"
    /\ sp_i < Len(tour)
    /\ LET cp == IF cost[sp_i] = Infinity THEN <<cost, pred>>
                 ELSE SplitInner(sp_i, sp_i, 0, 0, <<cost, pred>>)
       IN  /\ cost' = cp[1]
           /\ pred' = cp[2]
    /\ sp_i' = sp_i + 1
    /\ UNCHANGED <<probVars, tour, sp_pc, sp_routes, sp_total, notSplit>>

\* The backtrack and the result
SplitBacktrack ==
    /\ sp_pc = "dp"
    /\ sp_i = Len(tour)
    /\ sp_routes' = Reverse(SplitBacktrackFrom(Len(tour), <<>>))
    /\ sp_total' = cost[Len(tour)]
    /\ sp_pc' = "done"
    /\ UNCHANGED <<probVars, tour, cost, pred, sp_i, notSplit>>

InitSplit ==
    /\ n \in 0..NumCust
    /\ dist \in Matrices(n)
    /\ demand \in Demands(n)
    /\ service = NoService(n)
    /\ tw = NoWindows(n)
    /\ capacity \in 1..MaxCap
    /\ tour \in Perms(1..n)
    /\ cost = <<>>
    /\ pred = <<>>
    /\ sp_i = 0
    /\ sp_pc = "idle"
    /\ sp_routes = <<>>
    /\ sp_total = 0
    /\ SplitTWIdle
    /\ DmIdle
    /\ GaIdle
    /\ EvalIdle
    /\ LsIdle
    /\ ConsIdle
    /\ AlnsIdle

NextSplit == SplitCall \/ SplitOuter \/ SplitBacktrack

SpecSplit == InitSplit /\ [][NextSplit]_vars

-----------------------------------------------------------------------------
(* C1 *)

RECURSIVE SortedSeq(_)
SortedSeq(S) ==
    IF S = {} THEN <<>>
    ELSE LET m == CHOOSE x \in S : \A y \in S : x <= y
         IN  <<m>> \o SortedSeq(S \ {m})

\* The routes of the partition of t cut after the positions in cuts
PartitionAt(t, cuts) ==
    LET b == SortedSeq({0, Len(t)} \cup cuts)
    IN  [k \in 1..Len(b) - 1 |-> Slice(t, b[k], b[k + 1])]

\* Every partition of t into consecutive non-empty routes
Partitions(t) ==
    IF t = <<>> THEN {<<>>}
    ELSE {PartitionAt(t, cuts) : cuts \in SUBSET (1..Len(t) - 1)}

CapacityFeasible(rs) == \A k \in 1..Len(rs) : Load(rs[k]) <= capacity

AllDemandsFit == \A c \in 1..n : demand[c] <= capacity

\* C1: when every demand fits the capacity, split returns a finite total
\* distance, and it is the minimum of the summed depot-closed distances over
\* all partitions of the tour into consecutive routes of load <= capacity.
C1_SplitOptimal ==
    (sp_pc = "done" /\ AllDemandsFit) =>
        /\ sp_total < Infinity
        /\ \E rs \in Partitions(tour) :
               CapacityFeasible(rs) /\ TotalDistance(rs) = sp_total
        /\ \A rs \in Partitions(tour) :
               CapacityFeasible(rs) => sp_total <= TotalDistance(rs)

\* The capacity forces a split of three customers, and the cheapest feasible
\* partition is cheaper than another feasible one.
C1_Witness ==
    /\ sp_pc = "done"
    /\ AllDemandsFit
    /\ n = 3
    /\ Load(tour) > capacity
    /\ Len(sp_routes) = 2
    /\ \E rs \in Partitions(tour) :
           CapacityFeasible(rs) /\ TotalDistance(rs) > sp_total

-----------------------------------------------------------------------------
(* evaluation/evaluator.rs: RouteEvaluator::build_route *)

\* TimeWindow::new accepts ready <= due
Windows == {<<r, r + 1>> : r \in {0, MaxReady}}

Services(m) == {s \in [Nodes(m) -> 0..MaxService] : s[0] = 0}

TimeWindows(m) ==
    {w \in [Nodes(m) -> {<<>>} \cup Windows] : w[0] = <<>>}

Limits == {<<>>, <<MaxLimit>>}

\* TimeWindow::waiting_time
WaitingTime(w, arrival) == IF arrival < w[1] THEN w[1] - arrival ELSE 0

\* TimeWindow::is_violated
IsViolatedAtDue(w, arrival) == arrival >= w[2]
IsViolated(w, arrival) == arrival > w[2]

\* Route::push_visit
PushVisitKeepLoad(route, visit) ==
    [route EXCEPT !.visits = Append(@, visit)]
PushVisit(route, visit) ==
    [route EXCEPT !.visits = Append(@, visit), !.total_load = visit.load_after]

\* Route::customer_ids
CustomerIds(route) ==
    [k \in 1..Len(route.visits) |-> route.visits[k].customer_id]

\* service_start: the arrival, or the arrival plus the waiting time
ServiceStart(cid, arrival) ==
    IF tw[cid] # <<>> THEN arrival + WaitingTime(tw[cid], arrival)
    ELSE arrival

Violation(type, id, value, limit) ==
    [type |-> type, id |-> id, value |-> value, limit |-> limit]

\* One iteration of for &cid in customer_ids
EvalVisit(cid) ==
    /\ ev_pc = "loop"
    /\ Len(ev_input) < MaxSeq
    /\ LET travel    == Get(ev_prev, cid)
           arrival   == ev_time + travel
           departure == ServiceStart(cid, arrival) + service[cid]
           load      == ev_load + demand[cid]
       IN  /\ ev_dist' = ev_dist + travel
           /\ ev_violations' =
                  IF tw[cid] # <<>> /\ IsViolated(tw[cid], arrival)
                  THEN Append(ev_violations,
                              Violation("TimeWindowViolated", cid, arrival, tw[cid][2]))
                  ELSE ev_violations
           /\ ev_load' = load
           /\ ev_route' = PushVisit(ev_route,
                              [customer_id |-> cid, arrival_time |-> arrival,
                               departure_time |-> departure, load_after |-> load])
           /\ ev_time' = departure
    /\ ev_prev' = cid
    /\ ev_input' = Append(ev_input, cid)
    /\ UNCHANGED <<probVars, max_distance, max_duration, ev_pc, notEval>>

\* The checks after the loop, each pushing its violation
CapacityCheck(vs, load) ==
    IF load > capacity
    THEN Append(vs, Violation("CapacityExceeded", 0, load, capacity))
    ELSE vs

MaxDistanceCheck(vs, total_distance) ==
    IF max_distance # <<>> /\ total_distance > max_distance[1]
    THEN Append(vs, Violation("MaxDistanceExceeded", 0, total_distance, max_distance[1]))
    ELSE vs

MaxDurationCheck(vs, total_duration) ==
    IF max_duration # <<>> /\ total_duration > max_duration[1]
    THEN Append(vs, Violation("MaxDurationExceeded", 0, total_duration, max_duration[1]))
    ELSE vs

\* The return to the depot, the totals and the three checks
EvalReturn ==
    /\ ev_pc = "loop"
    /\ LET return_travel  == Get(ev_prev, 0)
           total_distance == ev_dist + return_travel
           total_duration == ev_time + return_travel
       IN  /\ ev_dist' = total_distance
           /\ ev_route' = [ev_route EXCEPT !.total_distance = total_distance,
                                           !.total_duration = total_duration]
           /\ ev_violations' =
                  MaxDurationCheck(
                      MaxDistanceCheck(CapacityCheck(ev_violations, ev_load),
                                       total_distance),
                      total_duration)
    /\ ev_pc' = "done"
    /\ UNCHANGED <<probVars, max_distance, max_duration, ev_input, ev_time,
                   ev_load, ev_prev, notEval>>

InitEval ==
    /\ n \in 1..EvalCust
    /\ dist \in Matrices(n)
    /\ demand \in Demands(n)
    /\ service \in Services(n)
    /\ tw \in TimeWindows(n)
    /\ capacity \in 1..MaxCap
    /\ max_distance \in Limits
    /\ max_duration \in Limits
    /\ ev_input = <<>>
    /\ ev_pc = "loop"
    /\ ev_time = 0
    /\ ev_load = 0
    /\ ev_dist = 0
    /\ ev_prev = 0
    /\ ev_route = NewRoute
    /\ ev_violations = <<>>
    /\ SplitIdle
    /\ SplitTWIdle
    /\ DmIdle
    /\ GaIdle
    /\ LsIdle
    /\ ConsIdle
    /\ AlnsIdle

NextEval == (\E cid \in 1..n : EvalVisit(cid)) \/ EvalReturn

SpecEval == InitEval /\ [][NextEval]_vars

-----------------------------------------------------------------------------
(* C9, C10 *)

\* C9: the route returned by build_route has total_load = the sum of the
\* demands of its visits; the first arrival is d(depot, first) and each later
\* arrival is the previous departure plus the travel between the two; each
\* departure is at least the arrival plus the service duration; and
\* total_distance is the depot-closed distance of the sequence.
C9_EvaluatorChain ==
    ev_pc = "done" =>
        LET v == ev_route.visits
        IN  /\ ev_route.total_load =
                   SumSeq([k \in 1..Len(v) |-> demand[v[k].customer_id]])
            /\ Len(v) > 0 => v[1].arrival_time = Get(0, ev_input[1])
            /\ \A k \in 1..Len(v) - 1 :
                   v[k + 1].arrival_time =
                       v[k].departure_time + Get(ev_input[k], ev_input[k + 1])
            /\ \A k \in 1..Len(v) :
                   v[k].departure_time >= v[k].arrival_time + service[ev_input[k]]
            /\ ev_route.total_distance = RouteDistance(ev_input)

\* Two customers on an asymmetric matrix, with a wait at the first and a load.
C9_Witness ==
    /\ ev_pc = "done"
    /\ Len(ev_input) = 2
    /\ ev_input[1] # ev_input[2]
    /\ ~IsSymmetric(dist, n)
    /\ ev_route.total_load > 0
    /\ service[ev_input[2]] > 0
    /\ ev_route.visits[1].departure_time >
           ev_route.visits[1].arrival_time + service[ev_input[1]]

IsLate(visit) ==
    /\ tw[visit.customer_id] # <<>>
    /\ visit.arrival_time > tw[visit.customer_id][2]

OfType(vs, type) == {k \in 1..Len(vs) : vs[k].type = type}

\* The TimeWindowViolated entries, in order
TimeWindowViolations ==
    LET IsTw(x) == x.type = "TimeWindowViolated"
    IN  SelectSeq(ev_violations, IsTw)

\* The late visits, in order, as the violations they should give
LateVisits ==
    LET late == SelectSeq(ev_route.visits, IsLate)
    IN  [k \in 1..Len(late) |->
            Violation("TimeWindowViolated", late[k].customer_id,
                      late[k].arrival_time, tw[late[k].customer_id][2])]

\* C10: build_route returns a route whose customer_ids() is the input, with a
\* TimeWindowViolated for exactly the visits that arrive after the due time
\* (whose service starts at the arrival), a CapacityExceeded iff the load
\* exceeds the capacity, a MaxDistanceExceeded iff max_distance is set and
\* exceeded, and a MaxDurationExceeded iff max_duration is set and exceeded.
C10_ViolationsReported ==
    ev_pc = "done" =>
        /\ CustomerIds(ev_route) = ev_input
        /\ TimeWindowViolations = LateVisits
        /\ \A k \in 1..Len(ev_route.visits) :
               IsLate(ev_route.visits[k]) =>
                   ev_route.visits[k].departure_time =
                       ev_route.visits[k].arrival_time + service[ev_input[k]]
        /\ (OfType(ev_violations, "CapacityExceeded") # {})
               <=> (ev_route.total_load > capacity)
        /\ (OfType(ev_violations, "MaxDistanceExceeded") # {})
               <=> (max_distance # <<>> /\ ev_route.total_distance > max_distance[1])
        /\ (OfType(ev_violations, "MaxDurationExceeded") # {})
               <=> (max_duration # <<>> /\ ev_route.total_duration > max_duration[1])

\* A late second visit after a punctual first one, on an overloaded route that
\* is too long, for a vehicle without a duration limit.
C10_Witness ==
    /\ ev_pc = "done"
    /\ Len(ev_input) = 2
    /\ tw[ev_input[1]] # <<>>
    /\ ~IsLate(ev_route.visits[1])
    /\ IsLate(ev_route.visits[2])
    /\ Len(ev_violations) = 3
    /\ OfType(ev_violations, "CapacityExceeded") # {}
    /\ OfType(ev_violations, "MaxDistanceExceeded") # {}
    /\ max_duration = <<>>

-----------------------------------------------------------------------------
(* local_search: the comparison of a delta with -1e-10.  Distances are     *)
(* integers, so a delta below -1e-10 is a delta below 0.                    *)

Improves(delta) == delta < 0

\* The candidate that a scan in increasing key order ends with, when it keeps
\* a candidate only if it improves and is strictly better than the best so
\* far: the least delta, and the least key among equal deltas.  <<>> when no
\* candidate improves.
FirstBest(cands) ==
    LET good == {c \in cands : Improves(c.delta)}
    IN  IF good = {} THEN <<>>
        ELSE << CHOOSE a \in good :
                    \A b \in good :
                        \/ a.delta < b.delta
                        \/ a.delta = b.delta /\ a.key <= b.key >>

-----------------------------------------------------------------------------
(* local_search/two_opt.rs *)

\* two_opt_delta, with the code's 0-based i and j
TwoOptDelta(route, i, j) ==
    LET prev_i == IF i = 0 THEN 0 ELSE route[i]
        next_j == IF j = Len(route) - 1 THEN 0 ELSE route[j + 2]
        old_cost == Get(prev_i, route[i + 1]) + Get(route[j + 1], next_j)
        new_cost == Get(prev_i, route[j + 1]) + Get(route[i + 1], next_j)
    IN  new_cost - old_cost

\* current[i..=j].reverse()
ReverseRange(route, i, j) ==
    [k \in 1..Len(route) |->
        IF i + 1 <= k /\ k <= j + 1 THEN route[i + j + 2 - k] ELSE route[k]]

\* The two for loops of one pass, from (i, j) on: <<current, improved>>
RECURSIVE TwoOptScan(_, _, _, _)
TwoOptScan(cur, i, j, imp) ==
    IF i >= Len(cur) - 1 THEN <<cur, imp>>
    ELSE IF j >= Len(cur) THEN TwoOptScan(cur, i + 1, i + 2, imp)
    ELSE IF Improves(TwoOptDelta(cur, i, j))
         THEN TwoOptScan(ReverseRange(cur, i, j), i, j + 1, TRUE)
         ELSE TwoOptScan(cur, i, j + 1, imp)

-----------------------------------------------------------------------------
(* local_search/three_opt.rs *)

\* The deltas of the seven patterns of try_three_opt_move
ThreeOptDeltas(route, i, j, k) ==
    LET a_end   == route[i + 1]
        b_start == route[i + 2]
        b_end   == route[j + 1]
        c_start == route[j + 2]
        c_end   == route[k + 1]
        d_start == IF k + 1 < Len(route) THEN route[k + 2] ELSE 0
        old_cost == Get(a_end, b_start) + Get(b_end, c_start) + Get(c_end, d_start)
    IN  { [key |-> 1, delta |->
              Get(a_end, b_start) + Get(b_end, c_end) + Get(c_start, d_start) - old_cost],
          [key |-> 2, delta |->
              Get(a_end, b_end) + Get(b_start, c_start) + Get(c_end, d_start) - old_cost],
          [key |-> 3, delta |->
              Get(a_end, b_end) + Get(b_start, c_end) + Get(c_start, d_start) - old_cost],
          [key |-> 4, delta |->
              Get(a_end, c_start) + Get(c_end, b_start) + Get(b_end, d_start) - old_cost],
          [key |-> 5, delta |->
              Get(a_end, c_start) + Get(c_end, b_end) + Get(b_start, d_start) - old_cost],
          [key |-> 6, delta |->
              Get(a_end, c_end) + Get(c_start, b_start) + Get(b_end, d_start) - old_cost],
          [key |-> 7, delta |->
              Get(a_end, c_end) + Get(c_start, b_end) + Get(b_start, d_start) - old_cost] }

\* The route rebuilt for a pattern
ThreeOptRebuild(route, i, j, k, pattern) ==
    LET seg_a == Slice(route, 0, i + 1)
        seg_b == Slice(route, i + 1, j + 1)
        seg_c == Slice(route, j + 1, k + 1)
        seg_d == Slice(route, k + 1, Len(route))
        mid == CASE pattern = 1 -> seg_b \o Reverse(seg_c)
                 [] pattern = 2 -> Reverse(seg_b) \o seg_c
                 [] pattern = 3 -> Reverse(seg_b) \o Reverse(seg_c)
                 [] pattern = 4 -> seg_c \o seg_b
                 [] pattern = 5 -> seg_c \o Reverse(seg_b)
                 [] pattern = 6 -> Reverse(seg_c) \o seg_b
                 [] pattern = 7 -> Reverse(seg_c) \o Reverse(seg_b)
    IN  seg_a \o mid \o seg_d

\* try_three_opt_move: <<>> (None) or <<new_route>>
TryThreeOptMove(route, i, j, k) ==
    LET best == FirstBest(ThreeOptDeltas(route, i, j, k))
    IN  IF best = <<>> THEN <<>>
        ELSE <<ThreeOptRebuild(route, i, j, k, best[1].key)>>

\* The three for loops of one pass, from (i, j, k) on: the first move that
\* try_three_opt_move finds, <<>> when it finds none
RECURSIVE ThreeOptScan(_, _, _, _)
ThreeOptScan(route, i, j, k) ==
    IF i >= Len(route) - 2 THEN <<>>
    ELSE IF j >= Len(route) - 1 THEN ThreeOptScan(route, i + 1, i + 2, i + 3)
    ELSE IF k >= Len(route) THEN ThreeOptScan(route, i, j + 1, j + 2)
    ELSE IF TryThreeOptMove(route, i, j, k) # <<>>
         THEN TryThreeOptMove(route, i, j, k)
         ELSE ThreeOptScan(route, i, j, k + 1)

-----------------------------------------------------------------------------
(* local_search/or_opt.rs *)

\* The delta of moving route[from..from+seg_len] to position to
OrOptDelta(route, seg_len, from, to) ==
    LET len       == Len(route)
        prev      == IF from = 0 THEN 0 ELSE route[from]
        after     == IF from + seg_len >= len THEN 0 ELSE route[from + seg_len + 1]
        seg_first == route[from + 1]
        seg_last  == route[from + seg_len]
        removal_gain == Get(prev, seg_first) + Get(seg_last, after) - Get(prev, after)
        ins_prev  == IF to < from
                     THEN (IF to = 0 THEN 0 ELSE route[to])
                     ELSE route[to]
        ins_next  == IF to < from THEN route[to + 1]
                     ELSE (IF to >= len THEN 0 ELSE route[to + 1])
        insertion_cost == Get(ins_prev, seg_first) + Get(seg_last, ins_next)
                          - Get(ins_prev, ins_next)
    IN  insertion_cost - removal_gain

\* The (from, to) pairs of the two for loops, in scan order by key
OrOptCandidates(route, seg_len) ==
    LET last == Len(route) - seg_len
    IN  { [from |-> f, to |-> t, key |-> f * (last + 1) + t,
           delta |-> OrOptDelta(route, seg_len, f, t)] :
            <<f, t>> \in {q \in (0..last) \X (0..last) :
                             ~(q[2] >= q[1] /\ q[2] <= q[1] + seg_len)} }

\* The move: drain the segment, insert it at insert_pos
OrOptApplyAtTo(route, seg_len, best_from, best_to) ==
    LET segment == Slice(route, best_from, best_from + seg_len)
        rest    == Slice(route, 0, best_from)
                   \o Slice(route, best_from + seg_len, Len(route))
    IN  Slice(rest, 0, Min(best_to, Len(rest))) \o segment
        \o Slice(rest, Min(best_to, Len(rest)), Len(rest))
OrOptApply(route, seg_len, best_from, best_to) ==
    LET segment == Slice(route, best_from, best_from + seg_len)
        rest    == Slice(route, 0, best_from)
                   \o Slice(route, best_from + seg_len, Len(route))
        insert_pos == IF best_to > best_from THEN best_to - seg_len ELSE best_to
    IN  Slice(rest, 0, insert_pos) \o segment \o Slice(rest, insert_pos, Len(rest))

\* try_or_opt_pass: <<>> (false) or the move it applies
TryOrOptPass(route, seg_len) ==
    IF Len(route) < seg_len + 1 THEN <<>>
    ELSE FirstBest(OrOptCandidates(route, seg_len))

-----------------------------------------------------------------------------
(* local_search/relocate.rs *)

RemovalCost(route, pos) ==
    LET prev == IF pos = 0 THEN 0 ELSE route[pos]
        next == IF pos = Len(route) - 1 THEN 0 ELSE route[pos + 2]
        cid  == route[pos + 1]
    IN  Get(prev, next) - Get(prev, cid) - Get(cid, next)

InsertionCost(route, pos, customer_id) ==
    LET prev == IF pos = 0 THEN 0 ELSE route[pos]
        next == IF pos = Len(route) THEN 0 ELSE route[pos + 1]
    IN  Get(prev, customer_id) + Get(customer_id, next) - Get(prev, next)

\* The moves that pass the capacity check, in scan order by key
RelocateCandidates(rs) ==
    LET K == n + 2
    IN  { [from_route |-> q[1], from_pos |-> q[2], to_route |-> q[3], to_pos |-> q[4],
           key |-> ((q[1] * K + q[2]) * K + q[3]) * K + q[4],
           delta |-> RemovalCost(rs[q[1] + 1], q[2])
                     + InsertionCost(rs[q[3] + 1], q[4], rs[q[1] + 1][q[2] + 1])] :
            q \in {p \in (0..Len(rs) - 1) \X (0..n) \X (0..Len(rs) - 1) \X (0..n) :
                      /\ p[2] < Len(rs[p[1] + 1])
                      /\ p[3] # p[1]
                      /\ Load(rs[p[3] + 1]) + demand[rs[p[1] + 1][p[2] + 1]] <= capacity
                      /\ p[4] <= Len(rs[p[3] + 1])} }

FindBestRelocate(rs) == FirstBest(RelocateCandidates(rs))

\* routes[from_route].remove(from_pos); routes[to_route].insert(to_pos, cid)
RelocateApplyKeepsSource(rs, mv) ==
    LET to  == rs[mv.to_route + 1]
        cid == rs[mv.from_route + 1][mv.from_pos + 1]
    IN  [rs EXCEPT
            ![mv.to_route + 1] =
                Slice(to, 0, mv.to_pos) \o <<cid>> \o Slice(to, mv.to_pos, Len(to))]
RelocateApply(rs, mv) ==
    LET from == rs[mv.from_route + 1]
        to   == rs[mv.to_route + 1]
        cid  == from[mv.from_pos + 1]
    IN  [rs EXCEPT
            ![mv.from_route + 1] =
                Slice(from, 0, mv.from_pos) \o Slice(from, mv.from_pos + 1, Len(from)),
            ![mv.to_route + 1] =
                Slice(to, 0, mv.to_pos) \o <<cid>> \o Slice(to, mv.to_pos, Len(to))]

-----------------------------------------------------------------------------
(* local_search/exchange.rs *)

ExchangeDelta(route1, route2, cut1, cut2) ==
    LET n1 == Len(route1)
        n2 == Len(route2)
        old_edge1 == IF cut1 < n1 THEN Get(route1[cut1], route1[cut1 + 1])
                     ELSE Get(route1[cut1], 0)
        old_edge2 == IF cut2 < n2 THEN Get(route2[cut2], route2[cut2 + 1])
                     ELSE Get(route2[cut2], 0)
        new_edge1 == IF cut2 < n2 THEN Get(route1[cut1], route2[cut2 + 1])
                     ELSE Get(route1[cut1], 0)
        new_edge2 == IF cut1 < n1 THEN Get(route2[cut2], route1[cut1 + 1])
                     ELSE Get(route2[cut2], 0)
    IN  (new_edge1 + new_edge2) - (old_edge1 + old_edge2)

\* The cuts that pass the capacity check, in scan order by key
ExchangeCandidates(route1, route2) ==
    LET n1 == Len(route1)
        n2 == Len(route2)
    IN  { [cut1 |-> q[1], cut2 |-> q[2], key |-> q[1] * (n2 + 1) + q[2],
           delta |-> ExchangeDelta(route1, route2, q[1], q[2])] :
            q \in {p \in (1..n1) \X (1..n2) :
                      /\ Load(Slice(route1, 0, p[1]) \o Slice(route2, p[2], n2)) <= capacity
                      /\ Load(Slice(route2, 0, p[2]) \o Slice(route1, p[1], n1)) <= capacity} }

FindBestExchange(route1, route2) == FirstBest(ExchangeCandidates(route1, route2))

\* The exchange of the tails of routes r1 and r2
ExchangeApply(rs, r1, r2, cut1, cut2) ==
    LET route1 == rs[r1 + 1]
        route2 == rs[r2 + 1]
    IN  [rs EXCEPT
            ![r1 + 1] = Slice(route1, 0, cut1) \o Slice(route2, cut2, Len(route2)),
            ![r2 + 1] = Slice(route2, 0, cut2) \o Slice(route1, cut1, Len(route1))]

\* The (r1, r2) after <<r1, r2>> in the two for loops; <<>> after the last
NextPair(pair, num) ==
    IF pair[2] + 1 < num THEN <<pair[1], pair[2] + 1>>
    ELSE IF pair[1] + 2 < num THEN <<pair[1] + 1, pair[1] + 2>>
    ELSE <<>>

-----------------------------------------------------------------------------
(* Solutions: models/solution.rs, and rebuild_solution of relocate.rs and  *)
(* exchange.rs                                                             *)

\* The total_distance that build_route gives a route
BuildRouteDistance(r) ==
    LET path == <<0>> \o r \o <<0>>
    IN  SumSeq([k \in 1..Len(path) - 1 |-> Get(path[k], path[k + 1])])

\* Solution::total_distance over routes built by the evaluator
SolutionDistance(rs) == SumSeq([k \in 1..Len(rs) |-> BuildRouteDistance(rs[k])])

\* rebuild_solution: the routes that are kept
RebuildRoutes(rs) ==
    LET NonEmpty(r) == r # <<>>
    IN  SelectSeq(rs, NonEmpty)

-----------------------------------------------------------------------------
(* The calls of the local-search operators *)

RouteOps == {"two_opt", "or_opt", "three_opt"}
SolutionOps == {"relocate", "exchange"}

\* The route operators' current
Current == routes[1]

\* What a call that returns leaves behind
Return(rs, un, d) ==
    /\ out_routes' = rs
    /\ out_unassigned' = un
    /\ out_dist' = d
    /\ ls_pc' = "done"

\* two_opt_improve: the early return for a route of fewer than 2 customers
TwoOptShort ==
    /\ ls_op = "two_opt" /\ ls_pc = "run"
    /\ Len(Current) < 2
    /\ Return(<<Current>>, <<>>,
              IF Current = <<>> THEN 0
              ELSE Get(0, Current[1]) + Get(Current[1], 0))
    /\ UNCHANGED <<probVars, ls_op, in_routes, unassigned, routes, ls_step,
                   improved, ls_before, ls_delta, notLs>>

\* two_opt_improve: a pass of the while loop that reverses something
TwoOptPass ==
    /\ ls_op = "two_opt" /\ ls_pc = "run"
    /\ Len(Current) >= 2
    /\ LET scan == TwoOptScan(Current, 0, 1, FALSE)
       IN  /\ scan[2]
           /\ routes' = <<scan[1]>>
    /\ UNCHANGED <<probVars, ls_op, ls_pc, in_routes, unassigned, ls_step,
                   improved, ls_before, ls_delta, out_routes, out_unassigned,
                   out_dist, notLs>>

\* two_opt_improve: the pass that reverses nothing, and the return
TwoOptReturn ==
    /\ ls_op = "two_opt" /\ ls_pc = "run"
    /\ Len(Current) >= 2
    /\ ~TwoOptScan(Current, 0, 1, FALSE)[2]
    /\ Return(<<Current>>, <<>>, RouteDistance(Current))
    /\ UNCHANGED <<probVars, ls_op, in_routes, unassigned, routes, ls_step,
                   improved, ls_before, ls_delta, notLs>>

\* three_opt_improve: the early return for a route of fewer than 4 customers
ThreeOptShort ==
    /\ ls_op = "three_opt" /\ ls_pc = "run"
    /\ Len(Current) < 4
    /\ Return(<<Current>>, <<>>, RouteDistance(Current))
    /\ UNCHANGED <<probVars, ls_op, in_routes, unassigned, routes, ls_step,
                   improved, ls_before, ls_delta, notLs>>

\* three_opt_improve: a pass of the while loop that finds a move
ThreeOptMove ==
    /\ ls_op = "three_opt" /\ ls_pc = "run"
    /\ Len(Current) >= 4
    /\ LET mv == ThreeOptScan(Current, 0, 1, 2)
       IN  /\ mv # <<>>
           /\ routes' = <<mv[1]>>
    /\ UNCHANGED <<probVars, ls_op, ls_pc, in_routes, unassigned, ls_step,
                   improved, ls_before, ls_delta, out_routes, out_unassigned,
                   out_dist, notLs>>

\* three_opt_improve: the pass that finds no move, and the return
ThreeOptReturn ==
    /\ ls_op = "three_opt" /\ ls_pc = "run"
    /\ Len(Current) >= 4
    /\ ThreeOptScan(Current, 0, 1, 2) = <<>>
    /\ Return(<<Current>>, <<>>, RouteDistance(Current))
    /\ UNCHANGED <<probVars, ls_op, in_routes, unassigned, routes, ls_step,
                   improved, ls_before, ls_delta, notLs>>

\* or_opt_improve: the early return for a route of fewer than 2 customers
OrOptShort ==
    /\ ls_op = "or_opt" /\ ls_pc = "run"
    /\ Len(Current) < 2
    /\ Return(<<Current>>, <<>>,
              IF Current = <<>> THEN 0
              ELSE Get(0, Current[1]) + Get(Current[1], 0))
    /\ UNCHANGED <<probVars, ls_op, in_routes, unassigned, routes, ls_step,
                   improved, ls_before, ls_delta, notLs>>

\* or_opt_improve: one try_or_opt_pass of the for loop over seg_len; after
\* the last seg_len of an improved pass the while loop starts over
OrOptStep ==
    /\ ls_op = "or_opt" /\ ls_pc = "run"
    /\ Len(Current) >= 2
    /\ LET mv   == TryOrOptPass(Current, ls_step)
           last == ls_step = Min(3, Len(Current))
           imp  == improved \/ mv # <<>>
       IN  /\ ~(last /\ ~imp)
           /\ IF mv = <<>>
              THEN UNCHANGED <<routes, ls_before, ls_delta>>
              ELSE /\ routes' = <<OrOptApply(Current, ls_step, mv[1].from, mv[1].to)>>
                   /\ ls_before' = RouteDistance(Current)
                   /\ ls_delta' = mv[1].delta
           /\ ls_step' = IF last THEN 1 ELSE ls_step + 1
           /\ improved' = IF last THEN FALSE ELSE imp
    /\ UNCHANGED <<probVars, ls_op, ls_pc, in_routes, unassigned, out_routes,
                   out_unassigned, out_dist, notLs>>

\* or_opt_improve: the last seg_len of a pass without a move, and the return
OrOptReturn ==
    /\ ls_op = "or_opt" /\ ls_pc = "run"
    /\ Len(Current) >= 2
    /\ ls_step = Min(3, Len(Current))
    /\ ~improved
    /\ TryOrOptPass(Current, ls_step) = <<>>
    /\ Return(<<Current>>, <<>>, RouteDistance(Current))
    /\ UNCHANGED <<probVars, ls_op, in_routes, unassigned, routes, ls_step,
                   improved, ls_before, ls_delta, notLs>>

\* relocate_improve / exchange_improve: solution.clone() for fewer than 2 routes
SolutionClone ==
    /\ ls_op \in SolutionOps /\ ls_pc = "run"
    /\ Len(routes) < 2
    /\ Return(in_routes, unassigned, SolutionDistance(in_routes))
    /\ UNCHANGED <<probVars, ls_op, in_routes, unassigned, routes, ls_step,
                   improved, ls_before, ls_delta, notLs>>

\* relocate_improve: a pass of the while loop that applies the best move
RelocateMove ==
    /\ ls_op = "relocate" /\ ls_pc = "run"
    /\ Len(routes) >= 2
    /\ LET mv == FindBestRelocate(routes)
       IN  /\ mv # <<>>
           /\ routes' = RelocateApply(routes, mv[1])
           /\ ls_before' = TotalDistance(routes)
           /\ ls_delta' = mv[1].delta
    /\ UNCHANGED <<probVars, ls_op, ls_pc, in_routes, unassigned, ls_step,
                   improved, out_routes, out_unassigned, out_dist, notLs>>

\* relocate_improve: the pass without a move, and rebuild_solution
RelocateReturn ==
    /\ ls_op = "relocate" /\ ls_pc = "run"
    /\ Len(routes) >= 2
    /\ FindBestRelocate(routes) = <<>>
    /\ Return(RebuildRoutes(routes), unassigned,
              SolutionDistance(RebuildRoutes(routes)))
    /\ UNCHANGED <<probVars, ls_op, in_routes, unassigned, routes, ls_step,
                   improved, ls_before, ls_delta, notLs>>

\* exchange_improve: one (r1, r2) of the two for loops; after the last pair
\* of an improved pass the while loop starts over
ExchangeStep ==
    /\ ls_op = "exchange" /\ ls_pc = "run"
    /\ Len(routes) >= 2
    /\ LET r1   == ls_step[1]
           r2   == ls_step[2]
           mv   == FindBestExchange(routes[r1 + 1], routes[r2 + 1])
           nxt  == NextPair(ls_step, Len(routes))
           imp  == improved \/ mv # <<>>
       IN  /\ ~(nxt = <<>> /\ ~imp)
           /\ IF mv = <<>>
              THEN UNCHANGED <<routes, ls_before, ls_delta>>
              ELSE /\ routes' = ExchangeApply(routes, r1, r2, mv[1].cut1, mv[1].cut2)
                   /\ ls_before' = TotalDistance(routes)
                   /\ ls_delta' = mv[1].delta
           /\ ls_step' = IF nxt = <<>> THEN <<0, 1>> ELSE nxt
           /\ improved' = IF nxt = <<>> THEN FALSE ELSE imp
    /\ UNCHANGED <<probVars, ls_op, ls_pc, in_routes, unassigned, out_routes,
                   out_unassigned, out_dist, notLs>>

\* exchange_improve: the last pair of a pass without a move, and
\* rebuild_solution
ExchangeReturn ==
    /\ ls_op = "exchange" /\ ls_pc = "run"
    /\ Len(routes) >= 2
    /\ NextPair(ls_step, Len(routes)) = <<>>
    /\ ~improved
    /\ FindBestExchange(routes[ls_step[1] + 1], routes[ls_step[2] + 1]) = <<>>
    /\ Return(RebuildRoutes(routes), unassigned,
              SolutionDistance(RebuildRoutes(routes)))
    /\ UNCHANGED <<probVars, ls_op, in_routes, unassigned, routes, ls_step,
                   improved, ls_before, ls_delta, notLs>>

\* A solution over the customers 1..m, numbered in the order in which the
\* solution lists them: num routes, which may be empty, then the unassigned
SolutionAt(m, num, cuts) ==
    LET p == [k \in 1..m |-> k]
    IN  [rts |-> [k \in 1..num |->
                    Slice(p, IF k = 1 THEN 0 ELSE cuts[k - 1], cuts[k])],
         un  |-> Slice(p, IF num = 0 THEN 0 ELSE cuts[num], m)]

Solutions(m) ==
    UNION { { SolutionAt(m, num, cuts) :
                cuts \in {c \in [1..num -> 0..m] :
                             \A k \in 1..num - 1 : c[k] <= c[k + 1]} } :
              num \in 0..MaxRoutes }

\* The state at the entry of the while loop of a route operator
InitRouteOp ==
    /\ ls_op \in RouteOps
    /\ n \in 0..LsCust
    /\ dist \in Matrices(n)
    /\ demand = [c \in Nodes(n) |-> IF c = 0 THEN 0 ELSE 1]
    /\ capacity = MaxCap
    /\ in_routes \in {<<p>> : p \in Perms(1..n)}
    /\ unassigned = <<>>

\* The state at the entry of the while loop of a solution operator
InitSolutionOp ==
    /\ ls_op \in SolutionOps
    /\ n \in 0..SolCust
    /\ dist \in Matrices(n)
    /\ demand \in {d \in Demands(n) : \A c \in 1..n : d[c] >= 1}
    /\ capacity = MaxCap
    /\ \E s \in Solutions(n) :
           /\ in_routes = s.rts
           /\ unassigned = s.un

\* or_opt_improve on a route long enough for a move to the end of the route
\* that no move of a segment of up to 3 customers to the front equals
InitLongRoute ==
    /\ ls_op = "or_opt"
    /\ n = LongCust
    /\ dist \in {LineMatrix(n, x) : x \in {y \in [Nodes(n) -> 0..MaxCoord] : y[0] = 0}}
           \cup {HillMatrix(n, h) : h \in {y \in [Nodes(n) -> 0..MaxHeight] : y[0] = 0}}
           \cup {CycleMatrix(n, p) : p \in Perms(1..n)}
    /\ demand = [c \in Nodes(n) |-> IF c = 0 THEN 0 ELSE 1]
    /\ capacity = LongCust
    /\ in_routes = <<[i \in 1..n |-> i]>>
    /\ unassigned = <<>>

InitLS ==
    /\ InitRouteOp \/ InitSolutionOp \/ InitLongRoute
    /\ service = NoService(n)
    /\ tw = NoWindows(n)
    /\ routes = in_routes
    /\ ls_pc = "run"
    /\ ls_step = IF ls_op = "or_opt" THEN 1
                 ELSE IF ls_op = "exchange" THEN <<0, 1>> ELSE 0
    /\ improved = FALSE
    /\ ls_before = TotalDistance(in_routes)
    /\ ls_delta = 0
    /\ out_routes = <<>>
    /\ out_unassigned = <<>>
    /\ out_dist = 0
    /\ SplitIdle
    /\ SplitTWIdle
    /\ DmIdle
    /\ GaIdle
    /\ EvalIdle
    /\ ConsIdle
    /\ AlnsIdle

NextLS ==
    \/ TwoOptShort \/ TwoOptPass \/ TwoOptReturn
    \/ ThreeOptShort \/ ThreeOptMove \/ ThreeOptReturn
    \/ OrOptShort \/ OrOptStep \/ OrOptReturn
    \/ SolutionClone
    \/ RelocateMove \/ RelocateReturn
    \/ ExchangeStep \/ ExchangeReturn

SpecLS == InitLS /\ [][NextLS]_vars

\* The calls on an input whose customers are numbered in the order in which
\* the input lists them, with unit demands for the solution operators
InitLSFair ==
    /\ InitLS
    /\ ls_op \in RouteOps => in_routes = <<[k \in 1..n |-> k]>>
    /\ ls_op \in SolutionOps => \A c \in 1..n : demand[c] = 1

\* The loops run on: a call that can take a step takes one
SpecLSFair == InitLSFair /\ [][NextLS]_vars /\ WF_vars(NextLS)

-----------------------------------------------------------------------------
(* C2, C6, C7, C8 *)

\* Every element of s occurs in s once
NoRepeats(s) == \A a, b \in 1..Len(s) : a # b => s[a] # s[b]

\* t holds the customers of s, each once
IsPermutationOf(t, s) ==
    /\ Len(t) = Len(s)
    /\ Range(t) = Range(s)
    /\ NoRepeats(t)

\* C2: two_opt_improve, or_opt_improve and three_opt_improve return a
\* permutation of the input route; relocate_improve and exchange_improve
\* return a solution that serves the customers the input serves, each once,
\* and whose unassigned list is the input's.
C2_LocalSearchConserves ==
    ls_pc = "done" =>
        /\ ls_op \in RouteOps =>
               /\ Len(out_routes) = 1
               /\ IsPermutationOf(out_routes[1], in_routes[1])
        /\ ls_op \in SolutionOps =>
               /\ IsPermutationOf(Concat(out_routes), Concat(in_routes))
               /\ out_unassigned = unassigned

\* relocate_improve has emptied a route of a solution that leaves a customer
\* unassigned.
C2_Witness ==
    /\ ls_pc = "done"
    /\ ls_op = "relocate"
    /\ unassigned # <<>>
    /\ \A k \in 1..Len(in_routes) : in_routes[k] # <<>>
    /\ Len(out_routes) < Len(in_routes)

ReversalOps == {"two_opt", "three_opt"}
SegmentOps == {"or_opt", "relocate", "exchange"}

\* C6 as stated: for every matrix, symmetric or not, the distance that
\* two_opt_improve and three_opt_improve return is the depot-closed distance
\* of the returned route and is not greater than that of the input route.
C6_ReversalMonotone ==
    (ls_pc = "done" /\ ls_op \in ReversalOps) =>
        /\ out_dist = RouteDistance(out_routes[1])
        /\ out_dist <= RouteDistance(in_routes[1])

\* C6, what the code keeps: the returned distance is the depot-closed
\* distance of the returned route for every matrix, and it is not greater
\* than that of the input route when the matrix is symmetric.
C6_SymmetricReversalMonotone ==
    (ls_pc = "done" /\ ls_op \in ReversalOps) =>
        /\ out_dist = RouteDistance(out_routes[1])
        /\ IsSymmetric(dist, n) => out_dist <= RouteDistance(in_routes[1])

\* three_opt_improve has shortened a route of four customers on a symmetric
\* matrix.
C6_Witness ==
    /\ ls_pc = "done"
    /\ ls_op = "three_opt"
    /\ IsSymmetric(dist, n)
    /\ out_dist < RouteDistance(in_routes[1])

\* C7: or_opt_improve returns a route that is not longer than the input
\* route, relocate_improve and exchange_improve return a solution whose total
\* distance is not greater than that of the input solution as the evaluator
\* timed it, and every move they apply changes the total distance by exactly
\* the delta computed for it.
C7_SegmentMonotone ==
    ls_op \in SegmentOps =>
        /\ TotalDistance(routes) = ls_before + ls_delta
        /\ ls_pc = "done" =>
               /\ out_dist = TotalDistance(out_routes)
               /\ out_dist <= SolutionDistance(in_routes)

\* or_opt_improve has moved a segment on an asymmetric matrix and returned a
\* shorter route.
C7_Witness ==
    /\ ls_pc = "done"
    /\ ls_op = "or_opt"
    /\ ~IsSymmetric(dist, n)
    /\ ls_delta < 0
    /\ out_dist < RouteDistance(in_routes[1])

\* C8 as stated: every call of the five operators terminates.
C8_Terminates == <>(ls_pc = "done")

\* C8, what the code keeps: the calls of or_opt_improve, relocate_improve
\* and exchange_improve terminate, and so do those of two_opt_improve and
\* three_opt_improve on a symmetric matrix.
C8_TerminatesWhenExact ==
    (ls_op \in SegmentOps \/ IsSymmetric(dist, n)) ~> (ls_pc = "done")

\* exchange_improve has returned after a second pass of its while loop over
\* three routes.
C8_Witness ==
    /\ ls_pc = "done"
    /\ ls_op = "exchange"
    /\ Len(in_routes) = 3
    /\ ls_delta < 0
    /\ ls_step = <<1, 2>>

-----------------------------------------------------------------------------
(* constructive/: nearest_neighbor, nearest_neighbor_tw,                   *)
(* clarke_wright_savings, sweep and solomon_i1.  A solution under          *)
(* construction is its routes, each the customer ids handed to             *)
(* build_route, and its unassigned list.                                   *)

ConsOps == {"nearest_neighbor", "nearest_neighbor_tw", "clarke_wright_savings",
            "sweep", "solomon_i1"}

\* slice::sort_by is stable: an element comes after the elements that are
\* less and after the equal elements that precede it
StableSort(s, Less(_, _)) ==
    LET pos(k) == 1 + Cardinality({j \in 1..Len(s) :
                        Less(s[j], s[k]) \/ (j < k /\ ~Less(s[k], s[j]))})
    IN  [p \in 1..Len(s) |-> s[CHOOSE k \in 1..Len(s) : pos(k) = p]]

\* The ids i of 1..n with ~visited[i], in increasing order
Unvisited ==
    LET NotVisited(i) == ~visited[i]
    IN  SelectSeq([i \in 1..n |-> i], NotVisited)

\* Solution::add_route / the return of a constructive heuristic
ConsReturn(rs, un) ==
    /\ sol_routes' = rs
    /\ sol_unassigned' = un
    /\ cons_pc' = "done"

\* if n <= 1 { return Solution::new(); }
ConsShort(op) ==
    /\ cons_op = op
    /\ cons_pc = "call"
    /\ n <= 0
    /\ ConsReturn(<<>>, <<>>)
    /\ UNCHANGED <<probVars, cons_op, vehicles, xs, ys, visited, vehicle_idx,
                   current, current_time, current_load, route_customers,
                   savings, cons_k, route_of, route_load, route_members,
                   angle_order, current_route, unrouted, notCons>>

-----------------------------------------------------------------------------
(* nearest_neighbor.rs and nn_tw.rs *)

\* The customers that the scan of 1..n does not skip
NNCandidatesAnyLoad(op) == {i \in 1..n : ~visited[i]}
NNCandidatesAnyTime(op) ==
    {i \in 1..n :
        ~visited[i] /\ current_load + demand[i] <= vehicles[vehicle_idx + 1]}
NNCandidates(op) ==
    {i \in 1..n :
        /\ ~visited[i]
        /\ current_load + demand[i] <= vehicles[vehicle_idx + 1]
        /\ (op = "nearest_neighbor_tw" /\ tw[i] # <<>>) =>
               ~(current_time + Get(current, i) > tw[i][2])}

\* best: the first of the nearest candidates, or None
NNBest(op) ==
    LET cands == NNCandidates(op)
    IN  IF cands = {} THEN <<>>
        ELSE <<CHOOSE i \in cands : \A j \in cands :
                   \/ Get(current, i) < Get(current, j)
                   \/ (Get(current, i) = Get(current, j) /\ i <= j)>>

NNStart(op) ==
    /\ cons_op = op
    /\ cons_pc = "call"
    /\ n >= 1
    /\ visited' = [i \in Nodes(n) |-> i = 0]
    /\ vehicle_idx' = 0
    /\ cons_pc' = "vehicle"
    /\ UNCHANGED <<probVars, cons_op, vehicles, xs, ys, current, current_time,
                   current_load, route_customers, savings, cons_k, route_of,
                   route_load, route_members, angle_order, current_route,
                   unrouted, sol_routes, sol_unassigned, notCons>>

\* No more vehicles: the remaining customers are unassigned
NNNoVehicle(op) ==
    /\ cons_op = op
    /\ cons_pc = "vehicle"
    /\ vehicle_idx >= Len(vehicles)
    /\ ConsReturn(sol_routes, sol_unassigned \o Unvisited)
    /\ UNCHANGED <<probVars, cons_op, vehicles, xs, ys, visited, vehicle_idx,
                   current, current_time, current_load, route_customers,
                   savings, cons_k, route_of, route_load, route_members,
                   angle_order, current_route, unrouted, notCons>>

NNOpenRoute(op) ==
    /\ cons_op = op
    /\ cons_pc = "vehicle"
    /\ vehicle_idx < Len(vehicles)
    /\ current' = 0
    /\ current_time' = 0
    /\ current_load' = 0
    /\ route_customers' = <<>>
    /\ cons_pc' = "visit"
    /\ UNCHANGED <<probVars, cons_op, vehicles, xs, ys, visited, vehicle_idx,
                   savings, cons_k, route_of, route_load, route_members,
                   angle_order, current_route, unrouted, sol_routes,
                   sol_unassigned, notCons>>

NNVisit(op) ==
    /\ cons_op = op
    /\ cons_pc = "visit"
    /\ NNBest(op) # <<>>
    /\ LET next == NNBest(op)[1]
       IN  /\ visited' = [visited EXCEPT ![next] = TRUE]
           /\ route_customers' = Append(route_customers, next)
           /\ current_time' =
                  IF op = "nearest_neighbor_tw"
                  THEN ServiceStart(next, current_time + Get(current, next))
                           + service[next]
                  ELSE current_time
           /\ current_load' = current_load + demand[next]
           /\ current' = next
    /\ UNCHANGED <<probVars, cons_op, cons_pc, vehicles, xs, ys, vehicle_idx,
                   savings, cons_k, route_of, route_load, route_members,
                   angle_order, current_route, unrouted, sol_routes,
                   sol_unassigned, notCons>>

NNCloseRoute(op) ==
    /\ cons_op = op
    /\ cons_pc = "visit"
    /\ NNBest(op) = <<>>
    /\ sol_routes' = IF route_customers # <<>>
                     THEN Append(sol_routes, route_customers)
                     ELSE sol_routes
    /\ vehicle_idx' = vehicle_idx + 1
    /\ cons_pc' = IF \A i \in 1..n : visited[i] THEN "done" ELSE "vehicle"
    /\ UNCHANGED <<probVars, cons_op, vehicles, xs, ys, visited, current,
                   current_time, current_load, route_customers, savings,
                   cons_k, route_of, route_load, route_members, angle_order,
                   current_route, unrouted, sol_unassigned, notCons>>

-----------------------------------------------------------------------------
(* clarke_wright.rs *)

\* The savings s(i, j) > 0 of the pairs i < j, in the order of the two loops
PositiveSavings ==
    LET pairs == [p \in 1..(n * n) |-> <<((p - 1) \div n) + 1, ((p - 1) % n) + 1>>]
        Saves(p) == /\ p[1] < p[2]
                    /\ Get(0, p[1]) + Get(0, p[2]) - Get(p[1], p[2]) > 0
        kept == SelectSeq(pairs, Saves)
    IN  [k \in 1..Len(kept) |->
            [i |-> kept[k][1], j |-> kept[k][2],
             value |-> Get(0, kept[k][1]) + Get(0, kept[k][2])
                           - Get(kept[k][1], kept[k][2])]]

\* savings.sort_by(|a, b| b.value.partial_cmp(&a.value))
SortedSavings ==
    LET Before(a, b) == a.value > b.value
    IN  StableSort(PositiveSavings, Before)

\* std::mem::take(&mut route_members[merge_from])
CloneMembers(members, merge_from) == members
TakeMembers(members, merge_from) == [members EXCEPT ![merge_from] = <<>>]

\* What one saving does to route_members, route_load and route_of; the
\* result is <<>> when the saving is skipped
CWMergeOf(saving) ==
    LET ri == route_of[saving.i]
        rj == route_of[saving.j]
        combined_load == route_load[ri] + route_load[rj]
        mi == route_members[ri]
        mj == route_members[rj]
        i_at_end   == mi # <<>> /\ mi[Len(mi)] = saving.i
        j_at_start == mj # <<>> /\ mj[1] = saving.j
        i_at_start == mi # <<>> /\ mi[1] = saving.i
        j_at_end   == mj # <<>> /\ mj[Len(mj)] = saving.j
        plan == IF i_at_end /\ j_at_start THEN <<rj, ri, FALSE, FALSE>>
                ELSE IF j_at_end /\ i_at_start THEN <<ri, rj, FALSE, FALSE>>
                ELSE IF i_at_end /\ j_at_end THEN <<rj, ri, TRUE, FALSE>>
                ELSE IF i_at_start /\ j_at_start THEN <<rj, ri, FALSE, TRUE>>
                ELSE <<>>
    IN  IF ri = rj \/ combined_load > capacity \/ plan = <<>> THEN <<>>
        ELSE
            LET merge_from == plan[1]
                merge_into == plan[2]
                from_members == IF plan[3] THEN Reverse(route_members[merge_from])
                                ELSE route_members[merge_from]
                into_members == IF plan[4] THEN Reverse(route_members[merge_into])
                                ELSE route_members[merge_into]
                merged == into_members \o from_members
            IN  <<[members |-> [TakeMembers(route_members, merge_from)
                                    EXCEPT ![merge_into] = merged],
                   load    |-> [route_load EXCEPT ![merge_into] = combined_load,
                                                  ![merge_from] = 0],
                   of      |-> [c \in Nodes(n) |->
                                   IF c \in Range(merged) THEN merge_into
                                   ELSE route_of[c]]]>>

CWShort == ConsShort("clarke_wright_savings")

CWStart ==
    /\ cons_op = "clarke_wright_savings"
    /\ cons_pc = "call"
    /\ n >= 1
    /\ savings' = SortedSavings
    /\ cons_k' = 0
    /\ route_of' = [i \in Nodes(n) |-> i]
    /\ route_load' = [i \in Nodes(n) |-> IF i = 0 THEN 0 ELSE demand[i]]
    /\ route_members' = [i \in Nodes(n) |-> IF i = 0 THEN <<>> ELSE <<i>>]
    /\ cons_pc' = "merge"
    /\ UNCHANGED <<probVars, cons_op, vehicles, xs, ys, visited, vehicle_idx,
                   current, current_time, current_load, route_customers,
                   angle_order, current_route, unrouted, sol_routes,
                   sol_unassigned, notCons>>

CWMerge ==
    /\ cons_op = "clarke_wright_savings"
    /\ cons_pc = "merge"
    /\ cons_k < Len(savings)
    /\ LET m == CWMergeOf(savings[cons_k + 1])
       IN  IF m = <<>> THEN UNCHANGED <<route_members, route_load, route_of>>
           ELSE /\ route_members' = m[1].members
                /\ route_load' = m[1].load
                /\ route_of' = m[1].of
    /\ cons_k' = cons_k + 1
    /\ UNCHANGED <<probVars, cons_op, cons_pc, vehicles, xs, ys, visited,
                   vehicle_idx, current, current_time, current_load,
                   route_customers, savings, angle_order, current_route,
                   unrouted, sol_routes, sol_unassigned, notCons>>

\* Build the solution from the merged routes
CWBuild ==
    /\ cons_op = "clarke_wright_savings"
    /\ cons_pc = "merge"
    /\ cons_k = Len(savings)
    /\ LET NonEmpty(r) == r # <<>>
           built == SelectSeq([k \in 1..(n + 1) |-> route_members[k - 1]], NonEmpty)
           NotBuilt(i) == \A k \in 1..Len(built) : i \notin Range(built[k])
       IN  ConsReturn(built, SelectSeq([i \in 1..n |-> i], NotBuilt))
    /\ UNCHANGED <<probVars, cons_op, vehicles, xs, ys, visited, vehicle_idx,
                   current, current_time, current_load, route_customers,
                   savings, cons_k, route_of, route_load, route_members,
                   angle_order, current_route, unrouted, notCons>>

-----------------------------------------------------------------------------
(* sweep.rs *)

\* Where dy.atan2(dx) lies: below the x axis (-pi, 0), at 0 (the depot's own
\* position included), above the x axis (0, pi), or at pi
AngleHalf(dx, dy) ==
    IF dy < 0 THEN 0
    ELSE IF dy = 0 /\ dx >= 0 THEN 1
    ELSE IF dy > 0 THEN 2
    ELSE 3

\* atan2 of customer a < atan2 of customer b
AngleLess(a, b) ==
    LET ax == xs[a] - xs[0]
        ay == ys[a] - ys[0]
        bx == xs[b] - xs[0]
        by == ys[b] - ys[0]
    IN  \/ AngleHalf(ax, ay) < AngleHalf(bx, by)
        \/ /\ AngleHalf(ax, ay) = AngleHalf(bx, by)
           /\ AngleHalf(ax, ay) \in {0, 2}
           /\ ax * by - ay * bx > 0

\* angle_order, sorted by ascending angle
SortedByAngle == StableSort([i \in 1..n |-> i], AngleLess)

SweepShort == ConsShort("sweep")

SweepStart ==
    /\ cons_op = "sweep"
    /\ cons_pc = "call"
    /\ n >= 1
    /\ angle_order' = SortedByAngle
    /\ cons_k' = 0
    /\ current_load' = 0
    /\ current_route' = <<>>
    /\ cons_pc' = "pack"
    /\ UNCHANGED <<probVars, cons_op, vehicles, xs, ys, visited, vehicle_idx,
                   current, current_time, route_customers, savings, route_of,
                   route_load, route_members, unrouted, sol_routes,
                   sol_unassigned, notCons>>

\* One iteration of the loop over angle_order
SweepStep ==
    /\ cons_op = "sweep"
    /\ cons_pc = "pack"
    /\ cons_k < Len(angle_order)
    /\ LET cid == angle_order[cons_k + 1]
           finalize == current_load + demand[cid] > capacity
                           /\ current_route # <<>>
           route == IF finalize THEN <<>> ELSE current_route
           load  == IF finalize THEN 0 ELSE current_load
       IN  /\ sol_routes' = IF finalize THEN Append(sol_routes, current_route)
                            ELSE sol_routes
           /\ IF demand[cid] <= capacity
              THEN /\ current_route' = Append(route, cid)
                   /\ current_load' = load + demand[cid]
                   /\ UNCHANGED sol_unassigned
              ELSE /\ sol_unassigned' = Append(sol_unassigned, cid)
                   /\ current_route' = route
                   /\ current_load' = load
    /\ cons_k' = cons_k + 1
    /\ UNCHANGED <<probVars, cons_op, cons_pc, vehicles, xs, ys, visited,
                   vehicle_idx, current, current_time, route_customers,
                   savings, route_of, route_load, route_members, angle_order,
                   unrouted, notCons>>

\* Add the remaining route
SweepFinish ==
    /\ cons_op = "sweep"
    /\ cons_pc = "pack"
    /\ cons_k = Len(angle_order)
    /\ ConsReturn(IF current_route # <<>> THEN Append(sol_routes, current_route)
                  ELSE sol_routes,
                  sol_unassigned)
    /\ UNCHANGED <<probVars, cons_op, vehicles, xs, ys, visited, vehicle_idx,
                   current, current_time, current_load, route_customers,
                   savings, cons_k, route_of, route_load, route_members,
                   angle_order, current_route, unrouted, notCons>>

-----------------------------------------------------------------------------
(* solomon_i1.rs *)

\* farthest_from_depot: the 0-based index into the unrouted list
FarthestFromDepot(list) ==
    IF \A k \in 1..Len(list) : ~(Get(0, list[k]) > 0) THEN 0
    ELSE (CHOOSE k \in 1..Len(list) :
              /\ \A j \in 1..Len(list) : Get(0, list[k]) >= Get(0, list[j])
              /\ \A j \in 1..(k - 1) : Get(0, list[k]) > Get(0, list[j])) - 1

\* is_tw_feasible, from the customer at 0-based position k on
RECURSIVE TwFeasibleFrom(_, _, _, _)
TwFeasibleFrom(route, k, time, prev) ==
    IF k >= Len(route) THEN TRUE
    ELSE
        LET cid == route[k + 1]
            arrival == time + Get(prev, cid)
        IN  IF tw[cid] # <<>> /\ arrival > tw[cid][2] THEN FALSE
            ELSE TwFeasibleFrom(route, k + 1,
                                ServiceStart(cid, arrival) + service[cid], cid)

IsTwFeasible(route) == TwFeasibleFrom(route, 0, 0, 0)

\* test_route.insert(pos, cid)
InsertNowhere(route, pos, cid) == route
InsertAt(route, pos, cid) ==
    Slice(route, 0, pos) \o <<cid>> \o Slice(route, pos, Len(route))

\* unrouted.remove(idx)
RemoveAt(list, idx) == Slice(list, 0, idx) \o Slice(list, idx + 1, Len(list))

\* The insertions (ui, pos) that pass the capacity and time-window checks
SolomonInsertions ==
    {c \in [ui : 0..(Len(unrouted) - 1), pos : 0..Len(route_customers)] :
        /\ ~(Load(route_customers) + demand[unrouted[c.ui + 1]] > capacity)
        /\ IsTwFeasible(InsertAt(route_customers, c.pos, unrouted[c.ui + 1]))}

\* c1 of an insertion
SolomonCost(c) ==
    LET cid == unrouted[c.ui + 1]
        prev == IF c.pos = 0 THEN 0 ELSE route_customers[c.pos]
        next == IF c.pos = Len(route_customers) THEN 0
                ELSE route_customers[c.pos + 1]
    IN  Get(prev, cid) + Get(cid, next) - Get(prev, next)

\* best_insert: the first insertion of least cost, or None
SolomonBestInsert ==
    LET cands == SolomonInsertions
    IN  IF cands = {} THEN <<>>
        ELSE <<CHOOSE c \in cands : \A o \in cands :
                   \/ SolomonCost(c) < SolomonCost(o)
                   \/ /\ SolomonCost(c) = SolomonCost(o)
                      /\ (c.ui < o.ui \/ (c.ui = o.ui /\ c.pos <= o.pos))>>

SolomonShort == ConsShort("solomon_i1")

SolomonStart ==
    /\ cons_op = "solomon_i1"
    /\ cons_pc = "call"
    /\ n >= 1
    /\ unrouted' = [i \in 1..n |-> i]
    /\ cons_pc' = "seed"
    /\ UNCHANGED <<probVars, cons_op, vehicles, xs, ys, visited, vehicle_idx,
                   current, current_time, current_load, route_customers,
                   savings, cons_k, route_of, route_load, route_members,
                   angle_order, current_route, sol_routes, sol_unassigned,
                   notCons>>

\* Start a new route from the farthest unrouted customer
SolomonSeed ==
    /\ cons_op = "solomon_i1"
    /\ cons_pc = "seed"
    /\ unrouted # <<>>
    /\ LET seed_idx == FarthestFromDepot(unrouted)
       IN  /\ route_customers' = <<unrouted[seed_idx + 1]>>
           /\ unrouted' = RemoveAt(unrouted, seed_idx)
    /\ cons_pc' = "insert"
    /\ UNCHANGED <<probVars, cons_op, vehicles, xs, ys, visited, vehicle_idx,
                   current, current_time, current_load, savings, cons_k,
                   route_of, route_load, route_members, angle_order,
                   current_route, sol_routes, sol_unassigned, notCons>>

SolomonInsert ==
    /\ cons_op = "solomon_i1"
    /\ cons_pc = "insert"
    /\ SolomonBestInsert # <<>>
    /\ LET b == SolomonBestInsert[1]
       IN  /\ unrouted' = RemoveAt(unrouted, b.ui)
           /\ route_customers' = InsertAt(route_customers, b.pos, unrouted[b.ui + 1])
    /\ UNCHANGED <<probVars, cons_op, cons_pc, vehicles, xs, ys, visited,
                   vehicle_idx, current, current_time, current_load, savings,
                   cons_k, route_of, route_load, route_members, angle_order,
                   current_route, sol_routes, sol_unassigned, notCons>>

\* No feasible insertion: close this route
SolomonClose ==
    /\ cons_op = "solomon_i1"
    /\ cons_pc = "insert"
    /\ SolomonBestInsert = <<>>
    /\ sol_routes' = Append(sol_routes, route_customers)
    /\ cons_pc' = "seed"
    /\ UNCHANGED <<probVars, cons_op, vehicles, xs, ys, visited, vehicle_idx,
                   current, current_time, current_load, route_customers,
                   savings, cons_k, route_of, route_load, route_members,
                   angle_order, current_route, unrouted, sol_unassigned,
                   notCons>>

SolomonReturn ==
    /\ cons_op = "solomon_i1"
    /\ cons_pc = "seed"
    /\ unrouted = <<>>
    /\ ConsReturn(sol_routes, sol_unassigned)
    /\ UNCHANGED <<probVars, cons_op, vehicles, xs, ys, visited, vehicle_idx,
                   current, current_time, current_load, route_customers,
                   savings, cons_k, route_of, route_load, route_members,
                   angle_order, current_route, unrouted, notCons>>

-----------------------------------------------------------------------------
(* The calls of the constructive heuristics *)

NNShort == ConsShort("nearest_neighbor")
NNTWShort == ConsShort("nearest_neighbor_tw")

\* DistanceMatrix::from_customers of customers on a line
LineMatrices(m) ==
    {LineMatrix(m, x) : x \in {y \in [Nodes(m) -> 0..MaxCoord] : y[0] = 0}}

\* DistanceMatrix::from_data, asymmetric
HillMatrices(m) ==
    {HillMatrix(m, h) : h \in {y \in [Nodes(m) -> 0..MaxHeight] : y[0] = 0}}

\* DistanceMatrix::from_data, a leg may cost more than the way round it
DetourMatrices(m) ==
    {TollMatrix(m, t) : t \in [Nodes(m) -> {0, MaxDetour}]}

\* The fleets: up to MaxVehicles vehicles, each small or large
Fleets ==
    UNION {[1..k -> {1, MaxCap}] : k \in 0..MaxVehicles}

\* Customers on the grid around a depot at the origin
Grid(m) == {c \in [Nodes(m) -> -1..1] : c[0] = 0}

Origin(m) == [c \in Nodes(m) |-> 0]

InitNN ==
    /\ cons_op = "nearest_neighbor"
    /\ dist \in LineMatrices(n) \cup HillMatrices(n)
    /\ demand \in Demands(n)
    /\ service = NoService(n)
    /\ tw = NoWindows(n)
    /\ vehicles \in Fleets
    /\ capacity = 0
    /\ xs = Origin(n)
    /\ ys = Origin(n)

InitNNTW ==
    /\ cons_op = "nearest_neighbor_tw"
    /\ dist \in LineMatrices(n) \cup DetourMatrices(n)
    /\ demand \in {d \in Demands(n) : \A c \in 1..n : d[c] >= 1}
    /\ \E s \in 0..MaxService : service = [c \in Nodes(n) |-> IF c = 0 THEN 0 ELSE s]
    /\ tw \in TimeWindows(n)
    /\ vehicles \in {f \in Fleets : \A k \in 1..Len(f) : f[k] = MaxCap}
    /\ capacity = 0
    /\ xs = Origin(n)
    /\ ys = Origin(n)

InitCW ==
    /\ cons_op = "clarke_wright_savings"
    /\ dist \in LineMatrices(n) \cup HillMatrices(n)
    /\ demand \in Demands(n)
    /\ service = NoService(n)
    /\ tw = NoWindows(n)
    /\ capacity \in 1..MaxCap
    /\ vehicles = <<capacity>>
    /\ xs = Origin(n)
    /\ ys = Origin(n)

\* DistanceMatrix::from_data, symmetric: every customer at MaxPair - 1 from
\* the depot, and each pair of customers at a distance of 1..MaxPair
StarMatrices(m) ==
    {[i \in Nodes(m) |-> [j \in Nodes(m) |->
        IF i = j THEN 0
        ELSE IF i = 0 \/ j = 0 THEN MaxPair - 1
        ELSE w[<<Min(i, j), Max(i, j)>>]]] :
            w \in [{q \in (1..m) \X (1..m) : q[1] < q[2]} -> 1..MaxPair]}

\* clarke_wright_savings on enough customers for two routes of two
\* customers to be merged at their ends or at their starts
InitCWFour ==
    /\ n = CwCust
    /\ cons_op = "clarke_wright_savings"
    /\ dist \in LineMatrices(n) \cup HillMatrices(n) \cup StarMatrices(n)
    /\ demand = [c \in Nodes(n) |-> IF c = 0 THEN 0 ELSE 1]
    /\ service = NoService(n)
    /\ tw = NoWindows(n)
    /\ capacity \in 2..CwCust
    /\ vehicles = <<capacity>>
    /\ xs = Origin(n)
    /\ ys = Origin(n)

InitSweep ==
    /\ cons_op = "sweep"
    /\ dist = HillMatrix(n, Origin(n))
    /\ demand \in {d \in Demands(n) : \A c \in 1..n : d[c] >= 1}
    /\ service = NoService(n)
    /\ tw = NoWindows(n)
    /\ capacity \in 1..MaxDemand
    /\ vehicles = <<capacity>>
    /\ xs \in Grid(n)
    /\ ys \in Grid(n)

InitSolomon ==
    /\ cons_op = "solomon_i1"
    /\ dist \in LineMatrices(n)
    /\ demand \in {d \in Demands(n) : \A c \in 1..n : d[c] >= 1}
    /\ \E s \in 0..MaxService : service = [c \in Nodes(n) |-> IF c = 0 THEN 0 ELSE s]
    /\ tw \in TimeWindows(n)
    /\ capacity \in (MaxCap - 1)..MaxCap
    /\ vehicles = <<capacity>>
    /\ xs = Origin(n)
    /\ ys = Origin(n)

InitCons ==
    /\ \/ /\ n \in 0..ConsCust
          /\ InitNN \/ InitNNTW \/ InitCW \/ InitSweep \/ InitSolomon
       \/ InitCWFour
    /\ cons_pc = "call"
    /\ visited = <<>>
    /\ vehicle_idx = 0
    /\ current = 0
    /\ current_time = 0
    /\ current_load = 0
    /\ route_customers = <<>>
    /\ savings = <<>>
    /\ cons_k = 0
    /\ route_of = <<>>
    /\ route_load = <<>>
    /\ route_members = <<>>
    /\ angle_order = <<>>
    /\ current_route = <<>>
    /\ unrouted = <<>>
    /\ sol_routes = <<>>
    /\ sol_unassigned = <<>>
    /\ SplitIdle
    /\ SplitTWIdle
    /\ DmIdle
    /\ GaIdle
    /\ EvalIdle
    /\ LsIdle
    /\ AlnsIdle

NextNN ==
    \/ NNShort
    \/ NNStart("nearest_neighbor")
    \/ NNNoVehicle("nearest_neighbor")
    \/ NNOpenRoute("nearest_neighbor")
    \/ NNVisit("nearest_neighbor")
    \/ NNCloseRoute("nearest_neighbor")

NextNNTW ==
    \/ NNTWShort
    \/ NNStart("nearest_neighbor_tw")
    \/ NNNoVehicle("nearest_neighbor_tw")
    \/ NNOpenRoute("nearest_neighbor_tw")
    \/ NNVisit("nearest_neighbor_tw")
    \/ NNCloseRoute("nearest_neighbor_tw")

NextCons ==
    \/ NextNN
    \/ NextNNTW
    \/ CWShort \/ CWStart \/ CWMerge \/ CWBuild
    \/ SweepShort \/ SweepStart \/ SweepStep \/ SweepFinish
    \/ SolomonShort \/ SolomonStart \/ SolomonSeed \/ SolomonInsert
    \/ SolomonClose \/ SolomonReturn

SpecCons == InitCons /\ [][NextCons]_vars

-----------------------------------------------------------------------------
(* C3 *)

\* The customers of the returned solution: the routes, then the unassigned
ConsListed == Concat(sol_routes) \o sol_unassigned

\* C3: when nearest_neighbor, nearest_neighbor_tw, clarke_wright_savings,
\* sweep or solomon_i1 returns, every customer 1..n is listed exactly once in
\* the returned routes and the unassigned list together, and the depot 0 is
\* in neither.
C3_ConstructiveConserves ==
    cons_pc = "done" =>
        /\ cons_op \in ConsOps
        /\ \A c \in 1..n :
               Cardinality({k \in 1..Len(ConsListed) : ConsListed[k] = c}) = 1
        /\ 0 \notin Range(ConsListed)
        /\ Len(ConsListed) = n

\* nearest_neighbor filled a small and a large vehicle and, out of vehicles,
\* left a customer unassigned
C3_Witness ==
    /\ cons_op = "nearest_neighbor"
    /\ cons_pc = "done"
    /\ n = ConsCust
    /\ vehicles = <<1, MaxCap>>
    /\ Len(sol_routes) = 2
    /\ Len(sol_unassigned) = 1

-----------------------------------------------------------------------------
(* alns/solution_repr.rs and alns/destroy.rs.  A draw from the random      *)
(* number generator is a choice among the values it can return.            *)

DestroyOps == {"random_removal", "worst_removal", "shaw_removal"}
RepairOps == {"greedy_insertion", "regret_insertion"}

\* compute_total_distance
ComputeTotalDistance(rs) ==
    SumSeq([k \in 1..Len(rs) |->
               IF rs[k] = <<>> THEN 0 ELSE BuildRouteDistance(rs[k])])

\* remove_empty_routes
RemoveEmptyRoutes(s) ==
    LET NonEmpty(r) == r # <<>>
    IN  [s EXCEPT !.routes = SelectSeq(@, NonEmpty)]

\* sol.routes().iter().map(|r| r.len()).sum()
TotalCustomers(s) == Len(Concat(s.routes))

\* (x as f64).round() of x = p / q >= 0: halves round away from zero
Round(p, q) == (2 * p + q) \div (2 * q)

\* ((total_customers as f64 * degree).round() as usize).max(1)
NumRemove(total_customers, deg) ==
    Max(Round(total_customers * deg, DegreeUnit), 1)

\* routes[ri].remove(pos), then unassigned.push(cid)
MoveToUnassigned(s, ri, pos) ==
    [s EXCEPT !.routes[ri + 1] = RemoveAt(@, pos),
              !.unassigned = Append(@, s.routes[ri + 1][pos + 1])]

\* RandomRemoval: the route and the position of the target-th assigned
\* customer, as <<ri, pos>>
RECURSIVE TargetPlace(_, _, _, _)
TargetPlace(rs, ri, count, target) ==
    IF ri >= Len(rs) THEN <<>>
    ELSE IF count + Len(rs[ri + 1]) > target THEN <<ri, target - count>>
    ELSE TargetPlace(rs, ri + 1, count + Len(rs[ri + 1]), target)

\* WorstRemoval::removal_saving
\* A saving that leaves out the leg prev -> next of the route without cid
RemovalSavingNoDirectLeg(route, pos) ==
    LET cid  == route[pos + 1]
        prev == IF pos = 0 THEN 0 ELSE route[pos]
        next == IF pos = Len(route) - 1 THEN 0 ELSE route[pos + 2]
    IN  Get(prev, cid) + Get(cid, next)

RemovalSaving(route, pos) ==
    LET cid  == route[pos + 1]
        prev == IF pos = 0 THEN 0 ELSE route[pos]
        next == IF pos = Len(route) - 1 THEN 0 ELSE route[pos + 2]
    IN  Get(prev, cid) + Get(cid, next) - Get(prev, next)

\* The places <<ri, pos>> of the assigned customers
Places(rs) ==
    {pl \in (0..(Len(rs) - 1)) \X (0..AlnsCust) : pl[2] < Len(rs[pl[1] + 1])}

\* WorstRemoval: the places that a draw of the noises can leave as
\* (best_route, best_pos); the noise is below 0.01 and the savings are whole
WorstPlaces(rs) ==
    {pl \in Places(rs) : \A o \in Places(rs) :
        RemovalSaving(rs[pl[1] + 1], pl[2]) >= RemovalSaving(rs[o[1] + 1], o[2])}

\* ShawRemoval::relatedness, as the fraction <<numerator, denominator>> of
\* 1 / (dist + 0.1) + 1 / (demand_diff + 1)
Relatedness(a, b) ==
    LET d10 == 10 * Get(a, b) + 1
        dd1 == Abs(demand[a] - demand[b]) + 1
    IN  <<10 * dd1 + d10, d10 * dd1>>

FracLess(p, q) == p[1] * q[2] < q[1] * p[2]

\* max_rel of a customer: a greatest relatedness to a removed customer
MaxRel(rem, cid) ==
    LET rels == {Relatedness(rem[k], cid) : k \in 1..Len(rem)}
    IN  CHOOSE r \in rels : \A o \in rels : ~FracLess(r, o)

\* best_idx: the first index of assigned with the greatest max_rel
ShawBestIdx(asg, rem) ==
    (CHOOSE idx \in 1..Len(asg) :
        /\ \A j \in 1..Len(asg) : ~FracLess(MaxRel(rem, asg[idx]), MaxRel(rem, asg[j]))
        /\ \A j \in 1..(idx - 1) : FracLess(MaxRel(rem, asg[j]), MaxRel(rem, asg[idx]))) - 1

\* remove_customer
RECURSIVE RemoveCustomerFrom(_, _, _)
RemoveCustomerFrom(rs, ri, customer_id) ==
    IF ri >= Len(rs) THEN rs
    ELSE IF customer_id \in Range(rs[ri + 1])
         THEN LET pos == (CHOOSE k \in 1..Len(rs[ri + 1]) :
                             /\ rs[ri + 1][k] = customer_id
                             /\ \A j \in 1..(k - 1) : rs[ri + 1][j] # customer_id) - 1
              IN  [rs EXCEPT ![ri + 1] = RemoveAt(@, pos)]
         ELSE RemoveCustomerFrom(rs, ri + 1, customer_id)

RemoveCustomer(s, customer_id) ==
    [s EXCEPT !.routes = RemoveCustomerFrom(@, 0, customer_id)]

-----------------------------------------------------------------------------
(* The calls of the destroy operators *)

\* let mut sol = solution.clone(); total_customers; num_remove
DestroyCall(op) ==
    /\ al_op = op
    /\ al_pc = "call"
    /\ sol' = al_input
    /\ num_remove' = NumRemove(TotalCustomers(al_input), degree)
    /\ al_iter' = 0
    /\ al_pc' = IF op = "shaw_removal" THEN "seed" ELSE "loop"
    /\ UNCHANGED <<probVars, al_op, al_input, degree, assigned, removed,
                   rp_unassigned, regret_k, notAlns>>

\* sol.remove_empty_routes(); sol
DestroyReturn(s) ==
    /\ sol' = RemoveEmptyRoutes(s)
    /\ al_pc' = "done"
    /\ UNCHANGED <<probVars, al_op, al_input, degree, num_remove, al_iter,
                   assigned, removed, rp_unassigned, regret_k, notAlns>>

RandomRemove ==
    /\ al_op = "random_removal"
    /\ al_pc = "loop"
    /\ al_iter < num_remove
    /\ TotalCustomers(sol) # 0
    /\ \E target \in 0..(TotalCustomers(sol) - 1) :
           LET pl == TargetPlace(sol.routes, 0, 0, target)
           IN  sol' = MoveToUnassigned(sol, pl[1], pl[2])
    /\ al_iter' = al_iter + 1
    /\ UNCHANGED <<probVars, al_op, al_pc, al_input, degree, num_remove,
                   assigned, removed, rp_unassigned, regret_k, notAlns>>

RandomReturn ==
    /\ al_op = "random_removal"
    /\ al_pc = "loop"
    /\ al_iter >= num_remove \/ TotalCustomers(sol) = 0
    /\ DestroyReturn(sol)

WorstRemove ==
    /\ al_op = "worst_removal"
    /\ al_pc = "loop"
    /\ al_iter < num_remove
    /\ \E pl \in WorstPlaces(sol.routes) :
           sol' = MoveToUnassigned(sol, pl[1], pl[2])
    /\ al_iter' = al_iter + 1
    /\ UNCHANGED <<probVars, al_op, al_pc, al_input, degree, num_remove,
                   assigned, removed, rp_unassigned, regret_k, notAlns>>

\* The loop ends, or best_saving is still NEG_INFINITY
WorstReturn ==
    /\ al_op = "worst_removal"
    /\ al_pc = "loop"
    /\ al_iter >= num_remove \/ Places(sol.routes) = {}
    /\ DestroyReturn(sol)

\* if total_customers == 0 { return sol; }
ShawShort ==
    /\ al_op = "shaw_removal"
    /\ al_pc = "seed"
    /\ TotalCustomers(sol) = 0
    /\ al_pc' = "done"
    /\ UNCHANGED <<probVars, al_op, al_input, sol, degree, num_remove, al_iter,
                   assigned, removed, rp_unassigned, regret_k, notAlns>>

ShawSeed ==
    /\ al_op = "shaw_removal"
    /\ al_pc = "seed"
    /\ TotalCustomers(sol) # 0
    /\ \E seed_idx \in 0..(TotalCustomers(sol) - 1) :
           LET all  == Concat(sol.routes)
               seed == all[seed_idx + 1]
           IN  /\ assigned' = RemoveAt(all, seed_idx)
               /\ removed' = <<seed>>
               /\ sol' = RemoveCustomer(sol, seed)
    /\ al_iter' = 1
    /\ al_pc' = "loop"
    /\ UNCHANGED <<probVars, al_op, al_input, degree, num_remove,
                   rp_unassigned, regret_k, notAlns>>

ShawNext ==
    /\ al_op = "shaw_removal"
    /\ al_pc = "loop"
    /\ al_iter < num_remove
    /\ assigned # <<>>
    /\ LET best_idx == ShawBestIdx(assigned, removed)
           next == assigned[best_idx + 1]
       IN  /\ assigned' = RemoveAt(assigned, best_idx)
           /\ removed' = Append(removed, next)
           /\ sol' = RemoveCustomer(sol, next)
    /\ al_iter' = al_iter + 1
    /\ UNCHANGED <<probVars, al_op, al_pc, al_input, degree, num_remove,
                   rp_unassigned, regret_k, notAlns>>

\* sol.unassigned_mut().extend(&removed)
ShawReturn ==
    /\ al_op = "shaw_removal"
    /\ al_pc = "loop"
    /\ al_iter >= num_remove \/ assigned = <<>>
    /\ DestroyReturn([sol EXCEPT !.unassigned = @ \o removed])

\* The solutions passed to an ALNS operator, with their cached distance
RoutingSolutions(m) ==
    {RoutingSolution(s.rts, s.un, ComputeTotalDistance(s.rts)) : s \in Solutions(m)}

\* The degrees 1/4, 1/2, 3/4 and 1
Degrees == 1..DegreeUnit

InitDestroy ==
    /\ al_op \in DestroyOps
    /\ n \in 0..AlnsCust
    /\ dist \in IF al_op = "random_removal" THEN {HillMatrix(n, Origin(n))}
                ELSE IF al_op = "worst_removal"
                     THEN LineMatrices(n) \cup HillMatrices(n)
                     ELSE LineMatrices(n)
    /\ demand \in IF al_op = "shaw_removal"
                  THEN {d \in Demands(n) : \A c \in 1..n : d[c] >= 1}
                  ELSE {[c \in Nodes(n) |-> IF c = 0 THEN 0 ELSE 1]}
    /\ service = NoService(n)
    /\ tw = NoWindows(n)
    /\ capacity = MaxCap
    /\ al_input \in RoutingSolutions(n)
    /\ degree \in Degrees
    /\ al_pc = "call"
    /\ sol = RoutingSolution(<<>>, <<>>, 0)
    /\ num_remove = 0
    /\ al_iter = 0
    /\ assigned = <<>>
    /\ removed = <<>>
    /\ rp_unassigned = <<>>
    /\ regret_k = 0
    /\ SplitIdle
    /\ SplitTWIdle
    /\ DmIdle
    /\ GaIdle
    /\ EvalIdle
    /\ LsIdle
    /\ ConsIdle

NextDestroy ==
    \/ \E op \in DestroyOps : DestroyCall(op)
    \/ RandomRemove \/ RandomReturn
    \/ WorstRemove \/ WorstReturn
    \/ ShawShort \/ ShawSeed \/ ShawNext \/ ShawReturn

SpecDestroy == InitDestroy /\ [][NextDestroy]_vars

-----------------------------------------------------------------------------
(* C4 *)

\* r is p / q rounded to the nearest whole number, halves upwards
RoundedTo(r, p, q) == -q < 2 * q * r - 2 * p /\ 2 * q * r - 2 * p <= q

\* k = max(1, round(d * T)) for the call's degree and the input's T
DestroyK ==
    LET T == TotalCustomers(al_input)
    IN  CHOOSE k \in 1..(T + 1) :
            \E r \in 0..(T + 1) : RoundedTo(r, T * degree, DegreeUnit) /\ k = Max(1, r)

\* What the call appended to the unassigned list
DestroyMoved ==
    Slice(sol.unassigned, Len(al_input.unassigned), Len(sol.unassigned))

\* The input routes without the moved customers and without empty routes
DestroyKept ==
    LET Stays(c) == c \notin Range(DestroyMoved)
        NonEmpty(r) == r # <<>>
    IN  SelectSeq([k \in 1..Len(al_input.routes) |->
                      SelectSeq(al_input.routes[k], Stays)], NonEmpty)

\* A destroy operator called on T >= 1 assigned customers appends exactly k
\* of them to the unassigned list, loses and repeats no customer, keeps the
\* other customers in their routes in their order and returns no empty route
DestroyRemovesK ==
    TotalCustomers(al_input) >= 1 =>
        /\ Len(DestroyMoved) = DestroyK
        /\ Slice(sol.unassigned, 0, Len(al_input.unassigned)) = al_input.unassigned
        /\ Range(DestroyMoved) \subseteq Range(Concat(al_input.routes))
        /\ IsPermutationOf(Concat(sol.routes) \o sol.unassigned,
                           Concat(al_input.routes) \o al_input.unassigned)
        /\ sol.routes = DestroyKept
        /\ \A k \in 1..Len(sol.routes) : sol.routes[k] # <<>>

\* C4, as stated: a destroy operator called with a degree in (0, 1] on a
\* solution with T >= 1 assigned customers moves exactly
\* k = max(1, round(d * T)) customers from the routes to the end of the
\* unassigned list, conserves the customers, keeps the order of the others
\* within each route and returns no empty route; called on a solution with
\* no assigned customer it returns the solution unchanged.
C4_DestroyAsStated ==
    (al_op \in DestroyOps /\ al_pc = "done") =>
        /\ DestroyRemovesK
        /\ TotalCustomers(al_input) = 0 => sol = al_input

\* C4, as the code has it: the same for T >= 1; on a solution with no
\* assigned customer ShawRemoval returns the solution unchanged, while
\* RandomRemoval and WorstRemoval return it without its empty routes.
C4_DestroyRemoves ==
    (al_op \in DestroyOps /\ al_pc = "done") =>
        /\ DestroyRemovesK
        /\ TotalCustomers(al_input) = 0 =>
               sol = IF al_op = "shaw_removal" THEN al_input
                     ELSE RemoveEmptyRoutes(al_input)

\* worst_removal took two of three customers at degree 1/2, emptying one of
\* the two routes, which the result no longer holds
C4_Witness ==
    /\ al_op = "worst_removal"
    /\ al_pc = "done"
    /\ TotalCustomers(al_input) = 3
    /\ degree * 2 = DegreeUnit
    /\ Len(al_input.routes) = 2
    /\ al_input.unassigned = <<>>
    /\ Len(DestroyMoved) = 2
    /\ Len(sol.routes) = 1

-----------------------------------------------------------------------------
(* alns/repair.rs *)

\* f64::MAX / 2.0: adding a regret of the model's size to it leaves it as
\* it is, and it is larger than every such regret
HalfMax == 888888

\* The routes, by 0-based index, that pass the capacity check for a customer
FeasibleRoutes(rs, customer_id) ==
    {ri \in 0..(Len(rs) - 1) :
        ~(Load(rs[ri + 1]) + demand[customer_id] > capacity)}

\* The first position of least insertion cost in a route
BestPosition(route, customer_id) ==
    CHOOSE pos \in 0..Len(route) :
        /\ \A o \in 0..Len(route) :
               InsertionCost(route, pos, customer_id) <= InsertionCost(route, o, customer_id)
        /\ \A o \in 0..(pos - 1) :
               InsertionCost(route, pos, customer_id) < InsertionCost(route, o, customer_id)

\* best_cost of a route: the least insertion cost over its positions
RouteCost(rs, ri, customer_id) ==
    CHOOSE c \in {InsertionCost(rs[ri + 1], pos, customer_id) : pos \in 0..Len(rs[ri + 1])} :
        \A pos \in 0..Len(rs[ri + 1]) : c <= InsertionCost(rs[ri + 1], pos, customer_id)

\* sorted_insertion_costs: how many feasible routes come before route ri
\* when the routes' costs are sorted, equal costs staying in route order
SortedRank(rs, ri, customer_id) ==
    Cardinality({rj \in FeasibleRoutes(rs, customer_id) :
        \/ RouteCost(rs, rj, customer_id) < RouteCost(rs, ri, customer_id)
        \/ /\ RouteCost(rs, rj, customer_id) = RouteCost(rs, ri, customer_id)
           /\ rj < ri})

\* best_insertion, and costs[0]: the first of the cheapest insertions
BestInsertion(rs, customer_id) ==
    CHOOSE b \in {[ri   |-> ri,
                   pos  |-> BestPosition(rs[ri + 1], customer_id),
                   cost |-> RouteCost(rs, ri, customer_id)] :
                     ri \in {r \in FeasibleRoutes(rs, customer_id) :
                                SortedRank(rs, r, customer_id) = 0}} : TRUE

\* best_cost of a customer: the cost of its best insertion
BestCost(rs, customer_id) ==
    CHOOSE c \in {RouteCost(rs, ri, customer_id) : ri \in FeasibleRoutes(rs, customer_id)} :
        \A ri \in FeasibleRoutes(rs, customer_id) : c <= RouteCost(rs, ri, customer_id)

\* The indices of the unassigned customers that have an insertion
Insertable(un, rs) ==
    {ui \in 0..(Len(un) - 1) : FeasibleRoutes(rs, un[ui + 1]) # {}}

\* GreedyInsertion: best_cust_idx, the first customer of least insertion
\* cost; <<>> while found is false
GreedyBest(un, rs) ==
    IF Insertable(un, rs) = {} THEN <<>>
    ELSE <<CHOOSE ui \in Insertable(un, rs) : \A o \in Insertable(un, rs) :
               \/ BestCost(rs, un[ui + 1]) < BestCost(rs, un[o + 1])
               \/ /\ BestCost(rs, un[ui + 1]) = BestCost(rs, un[o + 1])
                  /\ ui <= o>>

\* The regret of a customer that has an insertion: the costs of rank 1 to
\* k - 1, each less the best cost
Regret(rs, customer_id, k) ==
    IF Cardinality(FeasibleRoutes(rs, customer_id)) < k THEN HalfMax
    ELSE SumSeq([i \in 1..(k - 1) |->
                    CHOOSE d \in {RouteCost(rs, ri, customer_id) - BestCost(rs, customer_id) :
                                    ri \in {r \in FeasibleRoutes(rs, customer_id) :
                                               SortedRank(rs, r, customer_id) = i}} : TRUE])

\* A scan that also takes a customer of equal regret
RegretTakesAtTies(regret, best_regret, best_cost, first_cost) ==
    regret >= best_regret

\* regret > best_regret || (regret == best_regret && best_cost < costs[0].2)
RegretTakes(regret, best_regret, best_cost, first_cost) ==
    regret > best_regret \/ (regret = best_regret /\ best_cost < first_cost)

\* RegretInsertion: best_cust_idx, the customer that takes the place of
\* every earlier one and whose place no later one takes; <<>> while found
\* is false
RegretBest(un, rs, k) ==
    IF Insertable(un, rs) = {} THEN <<>>
    ELSE <<CHOOSE ui \in Insertable(un, rs) : \A o \in Insertable(un, rs) :
               /\ o < ui => RegretTakes(Regret(rs, un[ui + 1], k), Regret(rs, un[o + 1], k),
                                        BestCost(rs, un[ui + 1]),
                                        BestCost(rs, un[ui + 1]))
               /\ o > ui => ~RegretTakes(Regret(rs, un[o + 1], k), Regret(rs, un[ui + 1], k),
                                         BestCost(rs, un[o + 1]),
                                         BestCost(rs, un[o + 1]))>>

\* The choice of the loop body of a repair operator
RepairBest(op) ==
    IF op = "greedy_insertion" THEN GreedyBest(rp_unassigned, sol.routes)
    ELSE RegretBest(rp_unassigned, sol.routes, regret_k)

\* let mut sol = solution.clone(); mem::take(sol.unassigned_mut())
RepairCall(op) ==
    /\ al_op = op
    /\ al_pc = "call"
    /\ sol' = [al_input EXCEPT !.unassigned = <<>>]
    /\ rp_unassigned' = al_input.unassigned
    /\ al_pc' = "loop"
    /\ UNCHANGED <<probVars, al_op, al_input, degree, num_remove, al_iter,
                   assigned, removed, regret_k, notAlns>>

\* unassigned.remove(best_cust_idx); routes[best_route].insert(best_pos, cid)
RepairInsert(op) ==
    /\ al_op = op
    /\ al_pc = "loop"
    /\ rp_unassigned # <<>>
    /\ RepairBest(op) # <<>>
    /\ \E ui \in {RepairBest(op)[1]} :
         \E b \in {BestInsertion(sol.routes, rp_unassigned[ui + 1])} :
           /\ rp_unassigned' = RemoveAt(rp_unassigned, ui)
           /\ sol' = [sol EXCEPT !.routes[b.ri + 1] =
                                     InsertAt(@, b.pos, rp_unassigned[ui + 1])]
    /\ UNCHANGED <<probVars, al_op, al_pc, al_input, degree, num_remove,
                   al_iter, assigned, removed, regret_k, notAlns>>

\* unassigned.remove(0); sol.routes_mut().push(vec![cid])
RepairNewRoute(op) ==
    /\ al_op = op
    /\ al_pc = "loop"
    /\ rp_unassigned # <<>>
    /\ RepairBest(op) = <<>>
    /\ rp_unassigned' = RemoveAt(rp_unassigned, 0)
    /\ sol' = [sol EXCEPT !.routes = Append(@, <<rp_unassigned[1]>>)]
    /\ UNCHANGED <<probVars, al_op, al_pc, al_input, degree, num_remove,
                   al_iter, assigned, removed, regret_k, notAlns>>

\* sol.recalculate_distance(&self.distances); sol
RepairReturn(op) ==
    /\ al_op = op
    /\ al_pc = "loop"
    /\ rp_unassigned = <<>>
    /\ sol' = [sol EXCEPT !.total_distance = ComputeTotalDistance(sol.routes)]
    /\ al_pc' = "done"
    /\ UNCHANGED <<probVars, al_op, al_input, degree, num_remove, al_iter,
                   assigned, removed, rp_unassigned, regret_k, notAlns>>

GreedyCall == RepairCall("greedy_insertion")
GreedyInsert == RepairInsert("greedy_insertion")
GreedyNewRoute == RepairNewRoute("greedy_insertion")
GreedyReturn == RepairReturn("greedy_insertion")
RegretCall == RepairCall("regret_insertion")
RegretInsert == RepairInsert("regret_insertion")
RegretNewRoute == RepairNewRoute("regret_insertion")
RegretReturn == RepairReturn("regret_insertion")

\* The calls of the repair operators on the given matrices, capacities and k
RepairCalls(matrices(_), capacities, ks) ==
    /\ al_op \in RepairOps
    /\ n \in 0..AlnsCust
    /\ dist \in matrices(n)
    /\ demand \in {d \in Demands(n) : \A c \in 1..n : d[c] >= 1}
    /\ service = NoService(n)
    /\ tw = NoWindows(n)
    /\ capacity \in capacities
    /\ al_input \in RoutingSolutions(n)
    /\ regret_k \in IF al_op = "regret_insertion" THEN ks ELSE {0}
    /\ al_pc = "call"
    /\ sol = RoutingSolution(<<>>, <<>>, 0)
    /\ degree = 0
    /\ num_remove = 0
    /\ al_iter = 0
    /\ assigned = <<>>
    /\ removed = <<>>
    /\ rp_unassigned = <<>>
    /\ SplitIdle
    /\ SplitTWIdle
    /\ DmIdle
    /\ GaIdle
    /\ EvalIdle
    /\ LsIdle
    /\ ConsIdle

LineAndHillMatrices(m) == LineMatrices(m) \cup HillMatrices(m)

InitRepair == RepairCalls(LineAndHillMatrices, 1..MaxCap, 2..3)

NextRepair ==
    \/ GreedyCall \/ GreedyInsert \/ GreedyNewRoute \/ GreedyReturn
    \/ RegretCall \/ RegretInsert \/ RegretNewRoute \/ RegretReturn

SpecRepair == InitRepair /\ [][NextRepair]_vars

\* The calls on asymmetric matrices with the smaller capacity and the default k
InitRepairFair == RepairCalls(HillMatrices, {MaxCap - 1}, {2})

\* A repair operator runs on: a call that can take a step takes one
SpecRepairFair == InitRepairFair /\ [][NextRepair]_vars /\ WF_vars(NextRepair)

-----------------------------------------------------------------------------
(* C5 *)

\* The returned solution has no unassigned customer and holds every customer
\* of the input's routes and unassigned list once
RepairComplete ==
    /\ sol.unassigned = <<>>
    /\ IsPermutationOf(Concat(sol.routes),
                       Concat(al_input.routes) \o al_input.unassigned)

\* No unassigned customer has a capacity-feasible insertion
NoFeasibleInsertion ==
    \A k \in 1..Len(rp_unassigned) : \A ri \in 1..Len(sol.routes) :
        Load(sol.routes[ri]) + demand[rp_unassigned[k]] > capacity

\* A step of the loop that finds no feasible insertion opens a singleton
\* route for the first unassigned customer
OpensSingleton ==
    (al_pc = "loop" /\ rp_unassigned # <<>> /\ NoFeasibleInsertion) =>
        /\ sol'.routes = Append(sol.routes, <<rp_unassigned[1]>>)
        /\ rp_unassigned' = Tail(rp_unassigned)

\* C5: GreedyInsertion and RegretInsertion return, for every input solution,
\* a solution with an empty unassigned list in which every customer of the
\* input's routes and unassigned list appears exactly once; and whenever no
\* unassigned customer has a capacity-feasible insertion the step opens a
\* new singleton route holding the first unassigned customer.
C5_RepairCompletes ==
    /\ <>(al_pc = "done" /\ RepairComplete)
    /\ [][OpensSingleton]_vars

\* regret_insertion returned after opening a singleton route for a customer
\* that fitted in no route and inserting another customer into a route
C5_Witness ==
    /\ al_op = "regret_insertion"
    /\ al_pc = "done"
    /\ Len(al_input.unassigned) = 2
    /\ Len(al_input.routes) = 1
    /\ Len(sol.routes) = 2
    /\ Len(sol.routes[2]) = 1
    /\ Len(sol.routes[1]) = 2
    /\ RepairComplete

-----------------------------------------------------------------------------
(* C11, C12: the routes split returns *)

NonEmptyRoutes(rs) == \A k \in 1..Len(rs) : rs[k] # <<>>

\* C11: the routes split returns are non-empty and, concatenated in order,
\* are the input tour (an empty tour gives no routes and distance 0); when
\* every demand fits the capacity, total_distance is the sum of the
\* depot-closed distances of the returned routes.
C11_SplitPartitions ==
    sp_pc = "done" =>
        /\ NonEmptyRoutes(sp_routes)
        /\ Concat(sp_routes) = tour
        /\ (tour = <<>> => sp_routes = <<>> /\ sp_total = 0)
        /\ (AllDemandsFit => sp_total = TotalDistance(sp_routes))

\* Every customer of a three-customer tour gets a route of its own.
C11_Witness ==
    /\ sp_pc = "done"
    /\ AllDemandsFit
    /\ Len(tour) = 3
    /\ Len(sp_routes) = 3
    /\ sp_total = TotalDistance(sp_routes)

\* C12 as stated: every route split returns has load <= capacity, for every
\* tour and every capacity.
C12_SplitRespectsCapacity ==
    sp_pc = "done" => CapacityFeasible(sp_routes)

\* C12 for the tours the dynamic program can finish: when every demand fits
\* the capacity, every route split returns has load <= capacity.
C12_SplitRespectsCapacityWhenFit ==
    (sp_pc = "done" /\ AllDemandsFit) => CapacityFeasible(sp_routes)

\* A route filled to the capacity next to another route.
C12_Witness ==
    /\ sp_pc = "done"
    /\ AllDemandsFit
    /\ Len(sp_routes) = 2
    /\ \E k \in 1..2 : Len(sp_routes[k]) = 2 /\ Load(sp_routes[k]) = capacity

-----------------------------------------------------------------------------
(* ga/split_tw.rs: the split with capacity and time windows *)

\* if load > capacity { break; }
SplitTWOverCapacity(load) == load > capacity

\* if time > tw.due() { break; }
SplitTWNeverLate(time, w) == FALSE
SplitTWLate(time, w) == time > w[2]

\* time = time.max(tw.ready())
SplitTWWait(time, w) == Max(time, w[1])

\* if new_cost < cost[j + 1]
SplitTWRelaxes(new_cost, old_cost) == new_cost < old_cost

\* The inner loop for j in i..n, from j on; cp = <<cost, pred>>.
RECURSIVE SplitTWInner(_, _, _, _, _, _)
SplitTWInner(i, j, load, route_dist, time, cp) ==
    IF j >= Len(tour) THEN cp
    ELSE
        LET cid   == tour[j + 1]
            load2 == load + demand[cid]
        IN  IF SplitTWOverCapacity(load2) THEN cp
            ELSE
                LET travel == IF j = i THEN Get(0, cid) ELSE Get(tour[j], cid)
                    rd2    == IF j = i THEN travel ELSE route_dist + travel
                    time2  == IF j = i THEN travel ELSE time + travel
                IN  IF tw[cid] # <<>> /\ SplitTWLate(time2, tw[cid]) THEN cp
                    ELSE
                        LET time3 == IF tw[cid] # <<>>
                                     THEN SplitTWWait(time2, tw[cid])
                                     ELSE time2
                            time4 == time3 + service[cid]
                            total_route == rd2 + Get(cid, 0)
                            new_cost    == cp[1][i] + total_route
                            cp2 == IF SplitTWRelaxes(new_cost, cp[1][j + 1])
                                   THEN << [cp[1] EXCEPT ![j + 1] = new_cost],
                                           [cp[2] EXCEPT ![j + 1] = i] >>
                                   ELSE cp
                        IN  SplitTWInner(i, j + 1, load2, rd2, time4, cp2)

\* for j in (0..=n).rev() { if cost[j] < f64::INFINITY { last = j; break; } }
SplitTWEnd == Len(tour)
SplitTWLast ==
    LET reached == {j \in 0..Len(tour) : stw_cost[j] < Infinity}
    IN  IF reached = {} THEN 0
        ELSE CHOOSE j \in reached : \A k \in reached : k <= j

\* The backtrack loop from j, pushing tour[i..j]; reversed by the caller.
RECURSIVE SplitTWBacktrackFrom(_, _)
SplitTWBacktrackFrom(j, acc) ==
    IF j > 0
    THEN SplitTWBacktrackFrom(stw_pred[j],
                              Append(acc, Slice(tour, stw_pred[j], j)))
    ELSE acc

\* split_tw(): the early return for an empty tour, or the initial cost / pred
SplitTWCall ==
    /\ stw_pc = "idle"
    /\ IF Len(tour) = 0
       THEN /\ stw_routes' = <<>>
            /\ stw_total' = 0
            /\ stw_pc' = "done"
            /\ UNCHANGED <<stw_cost, stw_pred, stw_i>>
       ELSE /\ stw_cost' = [k \in 0..Len(tour) |->
                               IF k = 0 THEN 0 ELSE Infinity]
            /\ stw_pred' = [k \in 0..Len(tour) |-> 0]
            /\ stw_i' = 0
            /\ stw_pc' = "dp"
            /\ UNCHANGED <<stw_routes, stw_total>>
    /\ UNCHANGED <<probVars, splitVars, notSplitTw>>

\* One iteration of for i in 0..n
SplitTWOuter ==
    /\ stw_pc = "dp"
    /\ stw_i < Len(tour)
    /\ LET cp == IF stw_cost[stw_i] = Infinity THEN <<stw_cost, stw_pred>>
                 ELSE SplitTWInner(stw_i, stw_i, 0, 0, 0, <<stw_cost, stw_pred>>)
       IN  /\ stw_cost' = cp[1]
           /\ stw_pred' = cp[2]
    /\ stw_i' = stw_i + 1
    /\ UNCHANGED <<probVars, splitVars, stw_pc, stw_routes, stw_total,
                   notSplitTw>>

\* cost[n] is infinite: the routes up to the last reachable position
SplitTWPartial ==
    /\ stw_pc = "dp"
    /\ stw_i = Len(tour)
    /\ stw_cost[Len(tour)] = Infinity
    /\ stw_routes' = Reverse(SplitTWBacktrackFrom(SplitTWLast, <<>>))
    /\ stw_total' = IF SplitTWLast > 0 THEN stw_cost[SplitTWLast] ELSE 0
    /\ stw_pc' = "done"
    /\ UNCHANGED <<probVars, splitVars, stw_cost, stw_pred, stw_i, notSplitTw>>

\* cost[n] is finite: the backtrack from n and the result
SplitTWBacktrack ==
    /\ stw_pc = "dp"
    /\ stw_i = Len(tour)
    /\ stw_cost[Len(tour)] # Infinity
    /\ stw_routes' = Reverse(SplitTWBacktrackFrom(Len(tour), <<>>))
    /\ stw_total' = stw_cost[Len(tour)]
    /\ stw_pc' = "done"
    /\ UNCHANGED <<probVars, splitVars, stw_cost, stw_pred, stw_i, notSplitTw>>

\* Customers on a line, with or without a window, one service duration
InitSplitTW ==
    /\ n \in 0..NumCust
    /\ dist \in LineMatrices(n)
    /\ demand \in {d \in Demands(n) : \A c \in 1..n : d[c] >= 1}
    /\ \E s \in 0..MaxService :
           service = [c \in Nodes(n) |-> IF c = 0 THEN 0 ELSE s]
    /\ tw \in TimeWindows(n)
    /\ capacity \in 1..MaxCap
    /\ tour \in Perms(1..n)
    /\ cost = <<>>
    /\ pred = <<>>
    /\ sp_i = 0
    /\ sp_pc = "idle"
    /\ sp_routes = <<>>
    /\ sp_total = 0
    /\ SplitTWIdle
    /\ DmIdle
    /\ GaIdle
    /\ EvalIdle
    /\ LsIdle
    /\ ConsIdle
    /\ AlnsIdle

NextSplitTW ==
    SplitTWCall \/ SplitTWOuter \/ SplitTWPartial \/ SplitTWBacktrack

SpecSplitTW == InitSplitTW /\ [][NextSplitTW]_vars

-----------------------------------------------------------------------------
(* C13, C14, C15 *)

\* The arrival time at the k-th customer of route r, leaving the depot at 0,
\* waiting for a window to open and serving every customer before leaving it
RECURSIVE ArrivalAt(_, _)
ArrivalAt(r, k) ==
    IF k = 1 THEN Get(0, r[1])
    ELSE LET a == ArrivalAt(r, k - 1)
             c == r[k - 1]
             start == IF tw[c] # <<>> /\ a < tw[c][1] THEN tw[c][1] ELSE a
         IN  start + service[c] + Get(c, r[k])

OnTime(r) ==
    \A k \in 1..Len(r) : tw[r[k]] # <<>> => ArrivalAt(r, k) <= tw[r[k]][2]

FeasibleRoute(r) == Load(r) <= capacity /\ OnTime(r)

AllRoutesFeasible(rs) == \A k \in 1..Len(rs) : FeasibleRoute(rs[k])

FeasiblePartitions(t) == {rs \in Partitions(t) : AllRoutesFeasible(rs)}

\* C13: every route split_tw returns fits the capacity and reaches every
\* windowed customer by its due time; and when the whole tour has a partition
\* into such routes, split_tw returns one of least total depot-closed distance.
C13_SplitTWFeasibleOptimal ==
    stw_pc = "done" =>
        /\ AllRoutesFeasible(stw_routes)
        /\ FeasiblePartitions(tour) # {} =>
               /\ stw_routes \in FeasiblePartitions(tour)
               /\ stw_total = TotalDistance(stw_routes)
               /\ \A rs \in FeasiblePartitions(tour) :
                      TotalDistance(stw_routes) <= TotalDistance(rs)

\* The windows, not the capacity, force a split of three customers, and
\* another feasible partition is longer.
C13_Witness ==
    /\ stw_pc = "done"
    /\ Len(tour) = 3
    /\ Load(tour) <= capacity
    /\ ~OnTime(tour)
    /\ Len(stw_routes) = 2
    /\ Concat(stw_routes) = tour
    /\ \E rs \in FeasiblePartitions(tour) :
           TotalDistance(rs) > TotalDistance(stw_routes)

\* The positions j for which tour[0..j] has a feasible partition
ReachablePrefixes ==
    {j \in 0..Len(tour) : FeasiblePartitions(Slice(tour, 0, j)) # {}}

LastReachable ==
    CHOOSE j \in ReachablePrefixes : \A k \in ReachablePrefixes : k <= j

\* C14: when no feasible partition reaches the end of the tour, split_tw
\* returns non-empty routes that concatenate to tour[0..last], last being the
\* largest reachable position, with the finite least cost of that prefix as
\* total_distance (no routes and 0 when last = 0); no customer of tour[last..]
\* is in a route.
C14_SplitTWPartial ==
    (stw_pc = "done" /\ Len(tour) \notin ReachablePrefixes) =>
        /\ NonEmptyRoutes(stw_routes)
        /\ Concat(stw_routes) = Slice(tour, 0, LastReachable)
        /\ stw_total < Infinity
        /\ stw_total = TotalDistance(stw_routes)
        /\ \A rs \in FeasiblePartitions(Slice(tour, 0, LastReachable)) :
               stw_total <= TotalDistance(rs)
        /\ LastReachable = 0 => stw_routes = <<>> /\ stw_total = 0
        /\ \A j \in LastReachable + 1..Len(tour) :
               \A k \in 1..Len(stw_routes) : tour[j] \notin Range(stw_routes[k])

\* Two customers are served in two routes and the third is dropped.
C14_Witness ==
    /\ stw_pc = "done"
    /\ Len(tour) = 3
    /\ Len(tour) \notin ReachablePrefixes
    /\ LastReachable = 2
    /\ Len(stw_routes) = 2
    /\ stw_total > 0

\* split and split_tw on the same tour, without time windows
InitSplitBoth ==
    /\ n \in 0..NumCust
    /\ dist \in Matrices(n)
    /\ demand \in Demands(n)
    /\ \E s \in 0..MaxService :
           service = [c \in Nodes(n) |-> IF c = 0 THEN 0 ELSE s]
    /\ tw = NoWindows(n)
    /\ capacity \in 1..MaxCap
    /\ tour \in Perms(1..n)
    /\ cost = <<>>
    /\ pred = <<>>
    /\ sp_i = 0
    /\ sp_pc = "idle"
    /\ sp_routes = <<>>
    /\ sp_total = 0
    /\ SplitTWIdle
    /\ DmIdle
    /\ GaIdle
    /\ EvalIdle
    /\ LsIdle
    /\ ConsIdle
    /\ AlnsIdle

\* split first, then split_tw
NextSplitBoth ==
    \/ NextSplit
    \/ sp_pc = "done" /\ SplitTWCall
    \/ sp_pc = "done" /\ SplitTWOuter
    \/ sp_pc = "done" /\ SplitTWPartial
    \/ sp_pc = "done" /\ SplitTWBacktrack

SpecSplitBoth == InitSplitBoth /\ [][NextSplitBoth]_vars

\* C15 as stated: without time windows split_tw returns the routes and the
\* total_distance of split, for every tour and every capacity.
C15_SplitTWSameAsSplit ==
    (sp_pc = "done" /\ stw_pc = "done" /\ tw = NoWindows(n)) =>
        stw_routes = sp_routes /\ stw_total = sp_total

\* C15 when every demand fits the capacity: without time windows split_tw
\* returns the routes and the total_distance of split.
C15_SplitTWSameAsSplitWhenFit ==
    (sp_pc = "done" /\ stw_pc = "done" /\ tw = NoWindows(n) /\ AllDemandsFit) =>
        stw_routes = sp_routes /\ stw_total = sp_total

\* Both split a three-customer tour in two, with a service duration.
C15_Witness ==
    /\ sp_pc = "done"
    /\ stw_pc = "done"
    /\ tw = NoWindows(n)
    /\ AllDemandsFit
    /\ Len(tour) = 3
    /\ service[1] > 0
    /\ Len(sp_routes) = 2
    /\ stw_routes = sp_routes

-----------------------------------------------------------------------------
(* C16: capacity in nearest_neighbor, nearest_neighbor_tw and sweep *)

NNOps == {"nearest_neighbor", "nearest_neighbor_tw"}

\* The capacities a call has: its vehicles, or its one vehicle
CapacitiesOf(op) ==
    IF op \in NNOps THEN Range(vehicles) ELSE {capacity}

\* The customers whose demand exceeds the capacity of every vehicle
OverEveryCapacity(op) ==
    {c \in 1..n : \A cap \in CapacitiesOf(op) : demand[c] > cap}

InSomeRoute(c, rs) == \E k \in 1..Len(rs) : c \in Range(rs[k])

\* The returned solution: sweep's routes fit its vehicle, and the customers
\* over every capacity are unassigned and in no route
CapacityAtReturn ==
    (cons_pc = "done" /\ cons_op \in NNOps \cup {"sweep"}) =>
        /\ cons_op = "sweep" =>
               \A k \in 1..Len(sol_routes) : Load(sol_routes[k]) <= capacity
        /\ \A c \in OverEveryCapacity(cons_op) :
               c \in Range(sol_unassigned) /\ ~InSomeRoute(c, sol_routes)

\* A nearest-neighbour route is added while its vehicle is the current one
CapacityOfAddedRoute ==
    (cons_op \in NNOps /\ sol_routes' # sol_routes) =>
        /\ vehicle_idx < Len(vehicles)
        /\ sol_routes' = Append(sol_routes, route_customers)
        /\ Load(route_customers) <= vehicles[vehicle_idx + 1]

\* C16: in nearest_neighbor, nearest_neighbor_tw and sweep every route's
\* total demand is <= the capacity of the vehicle it was built for, and every
\* customer whose demand exceeds the capacity of every vehicle is returned in
\* unassigned and in no route.
C16_CapacityKept == [](CapacityAtReturn) /\ [][CapacityOfAddedRoute]_vars

\* Two small vehicles each took a route and a customer too large for both is
\* left unassigned.
C16_Witness ==
    /\ cons_op = "nearest_neighbor"
    /\ cons_pc = "done"
    /\ vehicles = <<1, 1>>
    /\ Len(sol_routes) = 2
    /\ \E c \in OverEveryCapacity(cons_op) : c \in Range(sol_unassigned)

-----------------------------------------------------------------------------
(* C17: capacity in clarke_wright_savings *)

\* C17 as stated: every route clarke_wright_savings returns has total demand
\* <= the vehicle capacity, and a customer whose demand exceeds the capacity
\* is in unassigned and in no route.
C17_CWCapacityKept ==
    (cons_pc = "done" /\ cons_op = "clarke_wright_savings") =>
        /\ \A k \in 1..Len(sol_routes) : Load(sol_routes[k]) <= capacity
        /\ \A c \in 1..n : demand[c] > capacity =>
               c \in Range(sol_unassigned) /\ ~InSomeRoute(c, sol_routes)

\* C17 for the customers that fit: when every demand is <= the capacity,
\* every route clarke_wright_savings returns has total demand <= the capacity;
\* and in every case a route of two or more customers fits.
C17_CWMergedRoutesFit ==
    (cons_pc = "done" /\ cons_op = "clarke_wright_savings") =>
        \A k \in 1..Len(sol_routes) :
            (AllDemandsFit \/ Len(sol_routes[k]) >= 2) =>
                Load(sol_routes[k]) <= capacity

\* A merge filled a route to the capacity and the capacity kept a third
\* customer out of it.
C17_Witness ==
    /\ cons_pc = "done"
    /\ cons_op = "clarke_wright_savings"
    /\ AllDemandsFit
    /\ Len(sol_routes) = 2
    /\ \E k \in 1..2 :
           /\ Len(sol_routes[k]) = 2
           /\ Load(sol_routes[k]) = capacity
           /\ Load(sol_routes[3 - k]) > 0

-----------------------------------------------------------------------------
(* C18: feasibility in solomon_i1 *)

\* Customer c can be served by a route of its own
Servable(c) ==
    demand[c] <= capacity /\ (tw[c] # <<>> => Get(0, c) <= tw[c][2])

\* C18 as stated: every route solomon_i1 returns fits the capacity and
\* reaches no customer after its due time, and a customer that cannot be
\* served (demand > capacity, or due < d(0, c)) is in unassigned and in no
\* route.
C18_SolomonFeasible ==
    (cons_pc = "done" /\ cons_op = "solomon_i1") =>
        /\ \A k \in 1..Len(sol_routes) : FeasibleRoute(sol_routes[k])
        /\ \A c \in 1..n : ~Servable(c) =>
               c \in Range(sol_unassigned) /\ ~InSomeRoute(c, sol_routes)

\* C18 for the customers that can be served: a route solomon_i1 returns fits
\* the capacity and reaches no customer after its due time when it holds two
\* or more customers, or when its one customer can be served alone.
C18_SolomonInsertionsFeasible ==
    (cons_pc = "done" /\ cons_op = "solomon_i1") =>
        \A k \in 1..Len(sol_routes) :
            (Len(sol_routes[k]) >= 2 \/ Servable(sol_routes[k][1])) =>
                FeasibleRoute(sol_routes[k])

\* Two routes, one of them of two customers with a window, where the three
\* customers in one route would be late or too heavy.
C18_Witness ==
    /\ cons_pc = "done"
    /\ cons_op = "solomon_i1"
    /\ \A c \in 1..n : Servable(c)
    /\ Len(sol_routes) = 2
    /\ \E k \in 1..2 :
           /\ Len(sol_routes[k]) = 2
           /\ \E c \in Range(sol_routes[k]) : tw[c] # <<>>
    /\ ~FeasibleRoute(Concat(sol_routes))

-----------------------------------------------------------------------------
(* C19: time windows in nearest_neighbor_tw *)

\* build_route: current_time after the first k customers of r
RECURSIVE BuildRouteDeparture(_, _)
BuildRouteDeparture(r, k) ==
    IF k = 0 THEN 0
    ELSE LET prev    == IF k = 1 THEN 0 ELSE r[k - 1]
             arrival == BuildRouteDeparture(r, k - 1) + Get(prev, r[k])
         IN  ServiceStart(r[k], arrival) + service[r[k]]

\* build_route: the arrival at the k-th customer of r
BuildRouteArrival(r, k) ==
    BuildRouteDeparture(r, k - 1) + Get(IF k = 1 THEN 0 ELSE r[k - 1], r[k])

\* build_route: the customers of r that get a TimeWindowViolated violation
TimeWindowViolated(r) ==
    {r[k] : k \in {j \in 1..Len(r) :
                       /\ tw[r[j]] # <<>>
                       /\ IsViolated(tw[r[j]], BuildRouteArrival(r, j))}}

\* The customers whose window closes before a vehicle can come straight from
\* the depot
DueBeforeDirect == {c \in 1..n : tw[c] # <<>> /\ tw[c][2] < Get(0, c)}

\* No way round is shorter than the direct leg
TriangleInequality ==
    \A a, b, c \in Nodes(n) : Get(a, c) <= Get(a, b) + Get(b, c)

NoWindowViolated ==
    \A k \in 1..Len(sol_routes) : TimeWindowViolated(sol_routes[k]) = {}

-----------------------------------------------------------------------------
(* C20: capacity and empty routes in relocate_improve and exchange_improve *)

\* C20 as stated: when every route of the input fits the capacity, every
\* route relocate_improve and exchange_improve return fits the capacity, and
\* no returned route is empty.
C20_InterRouteKeepsCapacity ==
    (ls_pc = "done" /\ ls_op \in SolutionOps /\ CapacityFeasible(in_routes)) =>
        /\ CapacityFeasible(out_routes)
        /\ NonEmptyRoutes(out_routes)

\* C20 for a solution of two or more routes: when every route of the input
\* fits the capacity, every route relocate_improve and exchange_improve
\* return fits the capacity, and, the input having two or more routes, no
\* returned route is empty.
C20_InterRouteKeepsCapacityOfTwo ==
    (ls_pc = "done" /\ ls_op \in SolutionOps /\ CapacityFeasible(in_routes)) =>
        /\ CapacityFeasible(out_routes)
        /\ Len(in_routes) >= 2 => NonEmptyRoutes(out_routes)

\* exchange_improve swapped two customers and left a route filled to the
\* capacity.
C20_Witness ==
    /\ ls_pc = "done"
    /\ ls_op = "exchange"
    /\ CapacityFeasible(in_routes)
    /\ Len(in_routes) >= 2
    /\ out_routes # in_routes
    /\ Len(out_routes) = Len(in_routes)
    /\ \E k \in 1..Len(out_routes) : Load(out_routes[k]) = capacity

-----------------------------------------------------------------------------
(* C21: capacity in GreedyInsertion and RegretInsertion *)

\* C21 as stated: when every route of the input fits the capacity, every
\* route GreedyInsertion and RegretInsertion return fits the capacity.
C21_RepairKeepsCapacity ==
    (al_op \in RepairOps /\ al_pc = "done"
        /\ CapacityFeasible(al_input.routes)) =>
        CapacityFeasible(sol.routes)

\* C21 for customers that fit a vehicle: when every route of the input fits
\* the capacity and no unassigned customer demands more than the capacity,
\* every route GreedyInsertion and RegretInsertion return fits the capacity.
C21_RepairKeepsCapacityWhenFit ==
    (al_op \in RepairOps /\ al_pc = "done"
        /\ CapacityFeasible(al_input.routes)
        /\ \A c \in Range(al_input.unassigned) : demand[c] <= capacity) =>
        CapacityFeasible(sol.routes)

\* greedy_insertion filled a route to the capacity and opened a new route for
\* the customer that no longer fitted.
C21_Witness ==
    /\ al_op = "greedy_insertion"
    /\ al_pc = "done"
    /\ CapacityFeasible(al_input.routes)
    /\ \A c \in Range(al_input.unassigned) : demand[c] <= capacity
    /\ Len(al_input.unassigned) = 2
    /\ Len(al_input.routes) = 1
    /\ Len(sol.routes) = 2
    /\ Load(sol.routes[1]) = capacity
    /\ Len(sol.routes[1]) > Len(al_input.routes[1])

-----------------------------------------------------------------------------
(* ga/problem.rs: create_individual, crossover and mutate.  A draw from    *)
(* the random number generator is a choice among the values it can return. *)
(* order_crossover, swap_mutation and invert_mutation are primitives of    *)
(* the u_metaheur crate, modelled as the specification describes them.     *)

GaTourOps == {"create_individual", "crossover", "mutate"}

\* perm.swap(i, j), i and j 0-based
SwapKeepsJ(p, i, j) == [p EXCEPT ![i + 1] = p[j + 1]]
Swap(p, i, j) == [p EXCEPT ![i + 1] = p[j + 1], ![j + 1] = p[i + 1]]

\* let mut perm: Vec<usize> = (1..=n).collect(); the loop starts at len - 1
CreateCall ==
    /\ ga_op = "create_individual"
    /\ ga_pc = "call"
    /\ perm' = [k \in 1..n |-> k]
    /\ ga_i' = IF n = 0 THEN 0 ELSE n - 1
    /\ ga_pc' = "shuffle"
    /\ UNCHANGED <<probVars, ga_op, parent1, parent2, children,
                   apply_local_search, ga_k, fitness, notGa>>

\* One iteration of for i in (1..perm.len()).rev(): j drawn from 0..=i
CreateShuffle ==
    /\ ga_op = "create_individual"
    /\ ga_pc = "shuffle"
    /\ ga_i >= 1
    /\ \E j \in 0..ga_i : perm' = Swap(perm, ga_i, j)
    /\ ga_i' = ga_i - 1
    /\ UNCHANGED <<probVars, ga_op, ga_pc, parent1, parent2, children,
                   apply_local_search, ga_k, fitness, notGa>>

\* GiantTour::new(perm)
CreateReturn ==
    /\ ga_op = "create_individual"
    /\ ga_pc = "shuffle"
    /\ ga_i < 1
    /\ ga_pc' = "done"
    /\ UNCHANGED <<probVars, ga_op, perm, ga_i, parent1, parent2, children,
                   apply_local_search, ga_k, fitness, notGa>>

\* The values of q that are not in the slice p[a..=b], in the order of q
RECURSIVE RestOf(_, _)
RestOf(q, taken) ==
    IF q = <<>> THEN <<>>
    ELSE IF Head(q) \in taken THEN RestOf(Tail(q), taken)
         ELSE <<Head(q)>> \o RestOf(Tail(q), taken)

\* order crossover: the child that keeps p[a..=b] in place and takes the
\* other positions, left to right, from q in q's order (a, b 0-based)
OrderChild(p, q, a, b) ==
    LET kept == {p[k] : k \in a + 1..b + 1}
        rest == RestOf(q, kept)
    IN  [k \in 1..Len(p) |->
            IF k < a + 1 THEN rest[k]
            ELSE IF k <= b + 1 THEN p[k]
            ELSE rest[k - (b - a + 1)]]

\* c - 1 on the way in, c + 1 on the way out
ToIndex(t) == [k \in 1..Len(t) |-> t[k] - 1]
ToCustomer(t) == [k \in 1..Len(t) |-> t[k] + 1]

\* crossover: order_crossover on the 0-indexed parents, two children
Crossover ==
    /\ ga_op = "crossover"
    /\ ga_pc = "call"
    /\ LET p1 == ToIndex(parent1)
           p2 == ToIndex(parent2)
       IN  \E a \in 0..Len(p1) - 1 : \E b \in a..Len(p1) - 1 :
               children' = << ToCustomer(OrderChild(p1, p2, a, b)),
                              ToCustomer(OrderChild(p2, p1, a, b)) >>
    /\ ga_pc' = "done"
    /\ UNCHANGED <<probVars, ga_op, perm, ga_i, parent1, parent2,
                   apply_local_search, ga_k, fitness, notGa>>

\* invert_mutation: the sub-range a..=b reversed (a, b 0-based)
Invert(p, a, b) ==
    [k \in 1..Len(p) |-> IF a + 1 <= k /\ k <= b + 1 THEN p[a + b + 2 - k] ELSE p[k]]

\* if individual.len() < 2 { return; }
MutateShort ==
    /\ ga_op = "mutate"
    /\ ga_pc = "call"
    /\ Len(perm) < 2
    /\ ga_pc' = "done"
    /\ UNCHANGED <<probVars, ga_op, perm, ga_i, parent1, parent2, children,
                   apply_local_search, ga_k, fitness, notGa>>

\* rng.random_range(0..2) == 0: swap_mutation
MutateSwap ==
    /\ ga_op = "mutate"
    /\ ga_pc = "call"
    /\ Len(perm) >= 2
    /\ \E i, j \in 0..Len(perm) - 1 : perm' = Swap(perm, i, j)
    /\ ga_pc' = "done"
    /\ UNCHANGED <<probVars, ga_op, ga_i, parent1, parent2, children,
                   apply_local_search, ga_k, fitness, notGa>>

\* otherwise: invert_mutation
MutateInvert ==
    /\ ga_op = "mutate"
    /\ ga_pc = "call"
    /\ Len(perm) >= 2
    /\ \E a \in 0..Len(perm) - 1 : \E b \in a..Len(perm) - 1 :
           perm' = Invert(perm, a, b)
    /\ ga_pc' = "done"
    /\ UNCHANGED <<probVars, ga_op, ga_i, parent1, parent2, children,
                   apply_local_search, ga_k, fitness, notGa>>

\* The calls: a problem of n customers, and giant tours of its customers
InitGa ==
    /\ ga_op \in GaTourOps
    /\ n \in (IF ga_op = "crossover" THEN 1 ELSE 0)..GaCust
    /\ dist = HillMatrix(n, [c \in Nodes(n) |-> 0])
    /\ demand = [c \in Nodes(n) |-> IF c = 0 THEN 0 ELSE 1]
    /\ service = NoService(n)
    /\ tw = NoWindows(n)
    /\ capacity = MaxCap
    /\ ga_pc = "call"
    /\ perm \in IF ga_op = "mutate" THEN Perms(1..n) ELSE {<<>>}
    /\ ga_i = 0
    /\ parent1 \in IF ga_op = "crossover" THEN Perms(1..n) ELSE {<<>>}
    /\ parent2 \in IF ga_op = "crossover" THEN Perms(1..n) ELSE {<<>>}
    /\ children = <<>>
    /\ apply_local_search = FALSE
    /\ ga_k = 0
    /\ fitness = 0
    /\ SplitIdle
    /\ SplitTWIdle
    /\ DmIdle
    /\ EvalIdle
    /\ LsIdle
    /\ ConsIdle
    /\ AlnsIdle

NextGa ==
    \/ CreateCall \/ CreateShuffle \/ CreateReturn
    \/ Crossover
    \/ MutateShort \/ MutateSwap \/ MutateInvert

SpecGa == InitGa /\ [][NextGa]_vars

-----------------------------------------------------------------------------
(* C22 *)

IsGiantTour(t) == Len(t) = n /\ IsPermutationOf(t, [k \in 1..n |-> k])

\* C22: create_individual returns a permutation of 1..n whatever the draws;
\* the two children of crossover of two permutations of 1..n, and mutate of a
\* permutation of 1..n, are permutations of 1..n of length n.
C22_GiantToursStayPermutations ==
    ga_pc = "done" =>
        /\ ga_op = "create_individual" => IsGiantTour(perm)
        /\ ga_op = "crossover" =>
               /\ Len(children) = 2
               /\ IsGiantTour(children[1])
               /\ IsGiantTour(children[2])
        /\ ga_op = "mutate" => IsGiantTour(perm)

\* A crossover whose children differ from both parents and from each other.
C22_Witness ==
    /\ ga_pc = "done"
    /\ ga_op = "crossover"
    /\ n = GaCust
    /\ children[1] \notin {parent1, parent2}
    /\ children[2] \notin {parent1, parent2, children[1]}

-----------------------------------------------------------------------------
(* distance/matrix.rs: the DistanceMatrix itself *)

\* vec![0.0; size * size]
Zeros(size) == [k \in 1..size * size |-> 0]

\* self.data[from * self.size + to]
DmGet(from, to) == dm_data[from * dm_size + to + 1]

\* self.data[from * self.size + to] = distance
DmSetOn(data, size, from, to, distance) ==
    [data EXCEPT ![from * size + to + 1] = distance]

\* The two set calls of from_customers for the pairs i < j, customers on a line
FromCustomersData(size, x) ==
    [k \in 1..size * size |->
        LET i == (k - 1) \div size
            j == (k - 1) % size
        IN  IF i = j THEN Zeros(size)[k] ELSE Abs(x[i] - x[j])]

Call(op, from, to) == [op |-> op, from |-> from, to |-> to]

\* DistanceMatrix::new
DmNew ==
    /\ dm_calls = <<>>
    /\ \E size \in 0..DmSize :
           /\ dm_size' = size
           /\ dm_data' = Zeros(size)
    /\ dm_calls' = <<Call("new", 0, 0)>>
    /\ UNCHANGED <<probVars, notDm>>

\* DistanceMatrix::from_customers
DmFromCustomers ==
    /\ dm_calls = <<>>
    /\ \E size \in 0..DmSize : \E x \in [0..size - 1 -> 0..MaxCoord] :
           /\ dm_size' = size
           /\ dm_data' = FromCustomersData(size, x)
    /\ dm_calls' = <<Call("from_customers", 0, 0)>>
    /\ UNCHANGED <<probVars, notDm>>

\* DistanceMatrix::from_data, Some: data.len() == size * size
DmFromData ==
    /\ dm_calls = <<>>
    /\ \E size \in 0..DmSize : \E data \in [1..size * size -> 0..MaxDist] :
           /\ dm_size' = size
           /\ dm_data' = data
    /\ dm_calls' = <<Call("from_data", 0, 0)>>
    /\ UNCHANGED <<probVars, notDm>>

\* DistanceMatrix::set
DmSet ==
    /\ dm_calls # <<>>
    /\ Len(dm_calls) <= MaxSets
    /\ \E from, to \in 0..dm_size - 1 : \E distance \in 0..MaxDist :
           /\ dm_data' = DmSetOn(dm_data, dm_size, from, to, distance)
           /\ dm_calls' = Append(dm_calls, Call("set", from, to))
    /\ UNCHANGED <<probVars, dm_size, notDm>>

InitDm ==
    /\ n = 0
    /\ dist = HillMatrix(0, [c \in Nodes(0) |-> 0])
    /\ demand = [c \in Nodes(0) |-> 0]
    /\ service = NoService(0)
    /\ tw = NoWindows(0)
    /\ capacity = 0
    /\ DmIdle
    /\ SplitIdle
    /\ SplitTWIdle
    /\ EvalIdle
    /\ LsIdle
    /\ ConsIdle
    /\ AlnsIdle
    /\ GaIdle

NextDm == DmNew \/ DmFromCustomers \/ DmFromData \/ DmSet

SpecDm == InitDm /\ [][NextDm]_vars

-----------------------------------------------------------------------------
(* C24 *)

ZeroDiagonal == \A i \in 0..dm_size - 1 : DmGet(i, i) = 0

\* C24 as stated: however the matrix was built, get(i, i) is 0 for every i.
C24_ZeroDiagonal == dm_calls # <<>> => ZeroDiagonal

\* C24 for the matrices whose diagonal was never written: after new or
\* from_customers and set calls with from # to only, get(i, i) is 0 for
\* every i.
C24_ZeroDiagonalUnlessWritten ==
    (/\ dm_calls # <<>>
     /\ dm_calls[1].op \in {"new", "from_customers"}
     /\ \A k \in 2..Len(dm_calls) : dm_calls[k].from # dm_calls[k].to) =>
        ZeroDiagonal

\* from_customers followed by two set calls off the diagonal.
C24_Witness ==
    /\ Len(dm_calls) = 3
    /\ dm_calls[1].op = "from_customers"
    /\ \A k \in 2..3 : dm_calls[k].from # dm_calls[k].to
    /\ dm_size = DmSize
    /\ DmGet(0, 1) # DmGet(1, 0)
    /\ ZeroDiagonal

-----------------------------------------------------------------------------
(* C25 *)

\* A step of RegretInsertion::repair that inserts a customer in a route
RegretInsertStep ==
    /\ al_op = "regret_insertion"
    /\ al_pc = "loop"
    /\ Len(rp_unassigned') = Len(rp_unassigned) - 1
    /\ Len(sol'.routes) = Len(sol.routes)

\* The customer the step inserts
Inserted == CHOOSE c \in Range(rp_unassigned) : c \notin Range(rp_unassigned')

\* The unassigned customers with a capacity-feasible route
InsertableCustomers ==
    {rp_unassigned[ui + 1] : ui \in Insertable(rp_unassigned, sol.routes)}

IndexIn(s, c) == CHOOSE i \in 1..Len(s) : s[i] = c

Constrained(c) == Cardinality(FeasibleRoutes(sol.routes, c)) < regret_k

GreatestRegret(c) ==
    /\ c \in InsertableCustomers
    /\ \A o \in InsertableCustomers :
           Regret(sol.routes, c, regret_k) >= Regret(sol.routes, o, regret_k)
    /\ (\E o \in InsertableCustomers : Constrained(o)) => Constrained(c)

SameRegret(c, o) == Regret(sol.routes, c, regret_k) = Regret(sol.routes, o, regret_k)

SmallerCostAtTies(c) ==
    \A o \in InsertableCustomers :
        SameRegret(c, o) => BestCost(sol.routes, c) <= BestCost(sol.routes, o)

FirstAtTies(c) ==
    \A o \in InsertableCustomers :
        SameRegret(c, o) => IndexIn(rp_unassigned, c) <= IndexIn(rp_unassigned, o)

\* The step puts c at a position of a capacity-feasible route that costs
\* no more than any position of any capacity-feasible route
AtCheapestPosition(c) ==
    \E ri \in FeasibleRoutes(sol.routes, c) : \E pos \in 0..Len(sol.routes[ri + 1]) :
        /\ sol'.routes = [sol.routes EXCEPT ![ri + 1] = InsertAt(@, pos, c)]
        /\ \A rj \in FeasibleRoutes(sol.routes, c) : \A o \in 0..Len(sol.routes[rj + 1]) :
               InsertionCost(sol.routes[ri + 1], pos, c)
                   <= InsertionCost(sol.routes[rj + 1], o, c)

\* C25 as stated: each inserting step of RegretInsertion takes the customer
\* of greatest regret (a customer with fewer than k feasible routes counting
\* as the greatest), among customers of equal regret the one of smaller best
\* insertion cost, and puts it at its cheapest feasible position.
C25_RegretOrder ==
    [][RegretInsertStep =>
          /\ GreatestRegret(Inserted)
          /\ SmallerCostAtTies(Inserted)
          /\ AtCheapestPosition(Inserted)]_vars

\* C25 with the order the scan has among customers of equal regret: each
\* inserting step takes the customer of greatest regret, among customers of
\* equal regret the first of the unassigned list, and puts it at its
\* cheapest feasible position.
C25_RegretOrderFirstAtTies ==
    [][RegretInsertStep =>
          /\ GreatestRegret(Inserted)
          /\ FirstAtTies(Inserted)
          /\ AtCheapestPosition(Inserted)]_vars

\* After one insertion, two insertable customers of different regret and
\* one that is not first in the list has the greatest regret.
C25_Witness ==
    /\ al_op = "regret_insertion"
    /\ al_pc = "loop"
    /\ Len(rp_unassigned) = 2
    /\ Len(al_input.unassigned) = 3
    /\ Len(sol.routes) = Len(al_input.routes)
    /\ Insertable(rp_unassigned, sol.routes) = {0, 1}
    /\ Regret(sol.routes, rp_unassigned[2], regret_k)
           > Regret(sol.routes, rp_unassigned[1], regret_k)
    /\ ~Constrained(rp_unassigned[2])

-----------------------------------------------------------------------------
(* C26 *)

\* The route after the segment of seg_len customers at from has been taken
\* out and put back so that it starts at position pos of the rest
MoveSegment(route, seg_len, from, pos) ==
    LET segment == Slice(route, from, from + seg_len)
        rest    == Slice(route, 0, from) \o Slice(route, from + seg_len, Len(route))
    IN  Slice(rest, 0, pos) \o segment \o Slice(rest, pos, Len(rest))

\* The routes one move of a segment of 1, 2 or 3 customers away
OrOptNeighbours(route) ==
    {MoveSegment(route, seg_len, from, pos) :
        <<seg_len, from, pos>> \in
            {q \in (1..3) \X (0..Len(route)) \X (0..Len(route)) :
                /\ q[2] + q[1] <= Len(route)
                /\ q[3] <= Len(route) - q[1]
                /\ q[3] # q[2]}}

OrOptReturned == ls_op = "or_opt" /\ ls_pc = "done"

\* C26 as stated: when or_opt_improve returns, no route one segment move
\* away, the moves to the front and to the end included, is shorter than the
\* returned route.
C26_OrOptLocalOptimum ==
    OrOptReturned =>
        \A r \in OrOptNeighbours(out_routes[1]) :
            ~(RouteDistance(r) < RouteDistance(out_routes[1]))

\* The moves the two for loops of try_or_opt_pass go through: to a position
\* before the segment, or to a later position that has at least seg_len
\* customers of the route from it on
OrOptScanned(route) ==
    {MoveSegment(route, seg_len, from, pos) :
        <<seg_len, from, pos>> \in
            {q \in (1..3) \X (0..Len(route)) \X (0..Len(route)) :
                /\ q[2] + q[1] <= Len(route)
                /\ \/ q[3] < q[2]
                   \/ q[3] > q[2] /\ q[3] <= Len(route) - 2 * q[1]}}

\* C26 for the moves of the scan: when or_opt_improve returns, no move of a
\* segment of 1, 2 or 3 customers to a position before it, or to a later
\* position followed by at least as many customers as the segment has,
\* gives a shorter route.
C26_OrOptLocalOptimumOfScan ==
    OrOptReturned =>
        \A r \in OrOptScanned(out_routes[1]) :
            ~(RouteDistance(r) < RouteDistance(out_routes[1]))

\* or_opt_improve has moved a segment of a route of LongCust customers and
\* returned a route with a neighbour of the scan at the same distance.
C26_Witness ==
    /\ OrOptReturned
    /\ n = LongCust
    /\ out_routes # in_routes
    /\ \E r \in OrOptScanned(out_routes[1]) :
           r # out_routes[1] /\ RouteDistance(r) = RouteDistance(out_routes[1])

-----------------------------------------------------------------------------
(* C27 *)

\* The merge loop of clarke_wright_savings, after any prefix of the savings
CWInMerge == cons_op = "clarke_wright_savings" /\ cons_pc = "merge"

\* The places <<r, k>> of customer c in the member lists
CWPlaces(c) ==
    {q \in Nodes(n) \X (1..n) :
        q[2] <= Len(route_members[q[1]]) /\ route_members[q[1]][q[2]] = c}

CWPartition ==
    /\ \A c \in 1..n :
           /\ Cardinality(CWPlaces(c)) = 1
           /\ \A q \in CWPlaces(c) : route_of[c] = q[1]
    /\ \A r \in Nodes(n) :
           route_members[r] # <<>> => route_load[r] = Load(route_members[r])

\* A step of the loop that merges two routes
CWMergeStep ==
    /\ CWInMerge
    /\ cons_k' = cons_k + 1
    /\ route_members' # route_members

IsEndpoint(c, members) ==
    members # <<>> /\ (members[1] = c \/ members[Len(members)] = c)

Adjacent(members, a, b) ==
    \E k \in 1..(Len(members) - 1) : {members[k], members[k + 1]} = {a, b}

CWMergeAllowed ==
    LET saving == savings[cons_k + 1]
        ri == route_of[saving.i]
        rj == route_of[saving.j]
    IN  /\ ri # rj
        /\ route_load[ri] + route_load[rj] <= capacity
        /\ IsEndpoint(saving.i, route_members[ri])
        /\ IsEndpoint(saving.j, route_members[rj])

CWMergedAdjacent ==
    LET saving == savings[cons_k + 1]
    IN  /\ route_of'[saving.i] = route_of'[saving.j]
        /\ Adjacent(route_members'[route_of'[saving.i]], saving.i, saving.j)

\* C27: after any prefix of the savings every customer is in exactly one
\* member list, route_of names it and route_load of a non-empty list is the
\* sum of its members' demands; a merge happens only between distinct
\* routes whose combined load fits the capacity and of which i and j are
\* endpoints, and it leaves i and j adjacent in one route.
C27_CWMergeSteps ==
    /\ [](CWInMerge => CWPartition)
    /\ [][CWMergeStep => CWMergeAllowed /\ CWMergedAdjacent]_vars

\* Two routes of two customers have been merged with one of them reversed:
\* a route of four customers whose first two or last two are in descending
\* order of their merge.
C27_Witness ==
    /\ CWInMerge
    /\ n = CwCust
    /\ \E r \in Nodes(n) :
           /\ Len(route_members[r]) = 4
           /\ \/ route_members[r][1] > route_members[r][2]
              \/ route_members[r][3] > route_members[r][4]
           /\ \E k \in 1..cons_k :
                  /\ Adjacent(route_members[r], savings[k].i, savings[k].j)
                  /\ {savings[k].i, savings[k].j}
                         = {route_members[r][2], route_members[r][3]}
                  /\ \E a, b \in 1..(k - 1) :
                         /\ {savings[a].i, savings[a].j}
                                = {route_members[r][1], route_members[r][2]}
                         /\ {savings[b].i, savings[b].j}
                                = {route_members[r][3], route_members[r][4]}

-----------------------------------------------------------------------------
(* C28 *)

\* A step of WorstRemoval::destroy that removes a customer
WorstRemoveStep ==
    /\ al_op = "worst_removal"
    /\ al_pc = "loop"
    /\ Len(sol'.unassigned) = Len(sol.unassigned) + 1

\* The customer the step pushes to unassigned
WorstRemoved == sol'.unassigned[Len(sol'.unassigned)]

AssignedCustomers(rs) == Range(Concat(rs))

\* What the routes' distance loses when customer c alone is taken out
SavingOf(rs, c) ==
    LET NotC(x) == x # c
    IN  TotalDistance(rs) - TotalDistance([k \in 1..Len(rs) |-> SelectSeq(rs[k], NotC)])

\* C28: each removing step of WorstRemoval takes an assigned customer whose
\* removal saving, on the routes as they are at that step, is the greatest
\* of all assigned customers (savings that differ differ by more than the
\* noise here, so the noise decides among equal savings only).
C28_WorstRemovalTakesMaxSaving ==
    [][WorstRemoveStep =>
          /\ WorstRemoved \in AssignedCustomers(sol.routes)
          /\ WorstRemoved \notin AssignedCustomers(sol'.routes)
          /\ \A o \in AssignedCustomers(sol.routes) :
                 SavingOf(sol.routes, WorstRemoved) >= SavingOf(sol.routes, o)]_vars

\* After one removal, the assigned customers have different savings and the
\* one that is first in the routes is not the one of greatest saving.
C28_Witness ==
    /\ al_op = "worst_removal"
    /\ al_pc = "loop"
    /\ al_iter = 1
    /\ num_remove >= 2
    /\ Len(sol.unassigned) = Len(al_input.unassigned) + 1
    /\ Cardinality(AssignedCustomers(sol.routes)) = 2
    /\ \E o \in AssignedCustomers(sol.routes) :
           SavingOf(sol.routes, o) > SavingOf(sol.routes, Concat(sol.routes)[1])

-----------------------------------------------------------------------------
(* alns/problem.rs, and destroy and repair operators applied in sequence *)

\* unassigned_penalty per customer
UnassignedPenalty == 10000

\* RoutingAlnsProblem::cost
AlnsCost(s) == s.total_distance + Len(s.unassigned) * UnassignedPenalty

AlnsOps == DestroyOps \cup RepairOps

\* The fields of a call of operator op on solution s
AlnsCallOf(op, s, d) ==
    /\ al_op' = op
    /\ al_pc' = "call"
    /\ al_input' = s
    /\ sol' = RoutingSolution(<<>>, <<>>, 0)
    /\ degree' = IF op \in DestroyOps THEN d ELSE 0
    /\ regret_k' = IF op = "regret_insertion" THEN 2 ELSE 0
    /\ num_remove' = 0
    /\ al_iter' = 0
    /\ assigned' = <<>>
    /\ removed' = <<>>
    /\ rp_unassigned' = <<>>

\* The solution an operator returned is the argument of the next operator
AlnsNextOperator ==
    /\ al_op \in AlnsOps
    /\ al_pc = "done"
    /\ \E op \in AlnsOps : \E d \in {1, DegreeUnit} : AlnsCallOf(op, sol, d)
    /\ UNCHANGED <<probVars, notAlns>>

\* RoutingSolution::new, then the first operator
InitAlns ==
    /\ al_op \in AlnsOps
    /\ n \in 1..AlnsCust
    /\ dist \in LineMatrices(n)
    /\ demand = [c \in Nodes(n) |-> IF c = 0 THEN 0 ELSE 1]
    /\ service = NoService(n)
    /\ tw = NoWindows(n)
    /\ capacity = MaxCap - 1
    /\ al_input \in RoutingSolutions(n)
    /\ degree \in IF al_op \in DestroyOps THEN {1, DegreeUnit} ELSE {0}
    /\ regret_k = IF al_op = "regret_insertion" THEN 2 ELSE 0
    /\ al_pc = "call"
    /\ sol = RoutingSolution(<<>>, <<>>, 0)
    /\ num_remove = 0
    /\ al_iter = 0
    /\ assigned = <<>>
    /\ removed = <<>>
    /\ rp_unassigned = <<>>
    /\ SplitIdle
    /\ SplitTWIdle
    /\ DmIdle
    /\ GaIdle
    /\ EvalIdle
    /\ LsIdle
    /\ ConsIdle

NextAlns == NextDestroy \/ NextRepair \/ AlnsNextOperator

SpecAlns == InitAlns /\ [][NextAlns]_vars

-----------------------------------------------------------------------------
(* C29 *)

AlnsReturned == al_op \in AlnsOps /\ al_pc = "done"

Coherent(s) ==
    /\ s.total_distance = TotalDistance(s.routes)
    /\ AlnsCost(s) = TotalDistance(s.routes) + 10000 * Len(s.unassigned)

\* C29 as stated: after any sequence of destroy and repair operators the
\* cached total_distance is the distance of the current routes, and cost is
\* that distance plus 10000 per unassigned customer.
C29_CachedDistanceCoherent == AlnsReturned => Coherent(sol)

\* C29 for the sequences that end with a repair operator: the solution a
\* repair operator returns has the distance of its routes cached, whatever
\* operators came before; and a destroy operator returns the total_distance
\* of its argument.
C29_CoherentAfterRepair ==
    /\ (AlnsReturned /\ al_op \in RepairOps) => Coherent(sol)
    /\ (AlnsReturned /\ al_op \in DestroyOps) =>
           sol.total_distance = al_input.total_distance

\* A repair operator has returned a solution for an argument whose cached
\* distance was not the distance of its routes.
C29_Witness ==
    /\ AlnsReturned
    /\ al_op \in RepairOps
    /\ ~Coherent(al_input)
    /\ al_input.unassigned # <<>>
    /\ Coherent(sol)
    /\ sol.total_distance > 0

-----------------------------------------------------------------------------
(* ga/problem.rs: evaluate *)

\* two_opt_improve: the route it returns, pass after pass
RECURSIVE TwoOptImproved(_)
TwoOptImproved(cur) ==
    IF Len(cur) < 2 THEN cur
    ELSE LET scan == TwoOptScan(cur, 0, 1, FALSE)
         IN  IF scan[2] THEN TwoOptImproved(scan[1]) ELSE cur

\* evaluate: split(individual.customers(), ...) is called
EvaluateCall ==
    /\ ga_op = "evaluate"
    /\ ga_pc = "call"
    /\ tour' = perm
    /\ ga_pc' = "split"
    /\ UNCHANGED <<probVars, cost, pred, sp_i, sp_pc, sp_routes, sp_total,
                   splitTwVars, evalVars, lsVars, consVars, alnsVars, dmVars,
                   ga_op, perm, ga_i, parent1, parent2, children,
                   apply_local_search, ga_k, fitness>>

\* if !self.apply_local_search { return result.total_distance; }
EvaluatePlain ==
    /\ ga_op = "evaluate"
    /\ ga_pc = "split"
    /\ sp_pc = "done"
    /\ ~apply_local_search
    /\ fitness' = sp_total
    /\ ga_pc' = "done"
    /\ UNCHANGED <<probVars, ga_op, perm, ga_i, parent1, parent2, children,
                   apply_local_search, ga_k, notGa, dmVars>>

\* for route in &result.routes: total += dist of two_opt_improve(route)
EvaluateRoute ==
    /\ ga_op = "evaluate"
    /\ ga_pc = "split"
    /\ sp_pc = "done"
    /\ apply_local_search
    /\ ga_k < Len(sp_routes)
    /\ fitness' = fitness + RouteDistance(TwoOptImproved(sp_routes[ga_k + 1]))
    /\ ga_k' = ga_k + 1
    /\ UNCHANGED <<probVars, ga_op, ga_pc, perm, ga_i, parent1, parent2,
                   children, apply_local_search, notGa, dmVars>>

\* total, after the last route
EvaluateReturn ==
    /\ ga_op = "evaluate"
    /\ ga_pc = "split"
    /\ sp_pc = "done"
    /\ apply_local_search
    /\ ga_k = Len(sp_routes)
    /\ ga_pc' = "done"
    /\ UNCHANGED <<probVars, ga_op, perm, ga_i, parent1, parent2, children,
                   apply_local_search, ga_k, fitness, notGa, dmVars>>

InitEvaluate ==
    /\ ga_op = "evaluate"
    /\ n \in 0..NumCust
    /\ dist \in LineMatrices(n)
    /\ demand \in Demands(n)
    /\ service = NoService(n)
    /\ tw = NoWindows(n)
    /\ capacity \in 1..MaxCap
    /\ ga_pc = "call"
    /\ perm \in Perms(1..n)
    /\ ga_i = 0
    /\ parent1 = <<>>
    /\ parent2 = <<>>
    /\ children = <<>>
    /\ apply_local_search \in BOOLEAN
    /\ ga_k = 0
    /\ fitness = 0
    /\ SplitIdle
    /\ SplitTWIdle
    /\ DmIdle
    /\ EvalIdle
    /\ LsIdle
    /\ ConsIdle
    /\ AlnsIdle

NextEvaluate ==
    \/ EvaluateCall
    \/ ga_pc = "split" /\ SplitCall
    \/ ga_pc = "split" /\ SplitOuter
    \/ ga_pc = "split" /\ SplitBacktrack
    \/ EvaluatePlain
    \/ EvaluateRoute
    \/ EvaluateReturn

SpecEvaluate == InitEvaluate /\ [][NextEvaluate]_vars

-----------------------------------------------------------------------------
(* C30 *)

Evaluated == ga_op = "evaluate" /\ ga_pc = "done"

FiniteMeansFeasible ==
    /\ fitness < Infinity => CapacityFeasible(sp_routes)
    /\ ~AllDemandsFit => fitness = Infinity

\* C30 as stated: with local search enabled or disabled, evaluate returns a
\* finite fitness only if every route of split fits the capacity, and
\* infinity when some demand exceeds the capacity.
C30_FiniteMeansFeasible == Evaluated => FiniteMeansFeasible

\* C30 without local search, or when every demand fits: evaluate returns a
\* finite fitness only if every route of split fits the capacity, and
\* without local search it returns infinity when some demand exceeds the
\* capacity.
C30_FiniteMeansFeasiblePlain ==
    (Evaluated /\ (~apply_local_search \/ AllDemandsFit)) => FiniteMeansFeasible

\* evaluate without local search has returned infinity for a tour with a
\* customer over the capacity and routes that do not fit.
C30_Witness ==
    /\ Evaluated
    /\ ~apply_local_search
    /\ ~AllDemandsFit
    /\ Len(tour) >= 2
    /\ fitness = Infinity
    /\ ~CapacityFeasible(sp_routes)

=============================================================================
